---- MODULE Spec2Model ----
(***************************************************************************)
(* Second Thought: the cool-down lifecycle kept in the `cooldowns` table   *)
(* and driven by CoolDownManager (lib/cooldown.ts).                        *)
(*                                                                         *)
(* The store is the table; every supabase request is one atomic statement  *)
(* that either is applied or fails with an error and changes nothing.      *)
(* check and getActive issue two requests (the expiry sweep, then the      *)
(* select) with an await between them, so other requests and the clock     *)
(* interleave there.                                                       *)
(***************************************************************************)
EXTENDS Integers, Sequences, FiniteSets, TLC

VARIABLES
    now,        \* wall clock, milliseconds (Date.now())
    ticks,      \* number of clock advances so far (bounds the run)
    cooldowns,  \* the cooldowns table: row id -> DbCooldown
    calls,      \* check / getActive calls between their sweep and their select
    response,   \* what the call that completed in this step gave its caller
    startArgs,  \* history: the arguments start() was given for each row id
    input,      \* the arguments of the library call under study (lib/*.ts)
    output,     \* what that call gave its caller
    profiles,   \* the user_profiles table: a sequence of DbUserProfile rows
    requests,   \* profile operations between two of their store requests
    storage,    \* chrome.storage.local of the extension
    handlers,   \* the extension's async functions between two awaits
    shown,      \* what the extension has put in front of the user
    uuids       \* how many identifiers crypto.randomUUID() has handed out

vars == <<now, ticks, cooldowns, calls, response, startArgs, input, output,
          profiles, requests, storage, handlers, shown, uuids>>

\* the profile store and the extension, which the cool-down manager and the
\* pure functions never touch
restVars == <<profiles, requests, storage, handlers, shown, uuids>>

\* ---------------------------------------------------------------- bounds
MaxTicks == 2
MaxCooldowns == 2
MaxCalls == 1

\* ------------------------------------------------------------- constants
HourMs == 60 * 60 * 1000

DayMs == 24 * HourMs

BadDurationSeconds == 24 * 60 * 60

COOLDOWN_DURATION_MS == 24 * 60 * 60 * 1000

TickSteps == {HourMs, 24 * HourMs}

\* ---------------------------------------------------------------- inputs
Users == {"u1", "u2"}

Urls == {"shop/a", "shop/b"}

ProductA == [url |-> "shop/a", name |-> "Headphones", price |-> 200]

ProductA2 == [url |-> "shop/a", name |-> "Headphones", price |-> 150]

ProductB == [url |-> "shop/b", name |-> "Rice", price |-> 12]

AnalysisCool == [isEssential |-> FALSE, suggestedAction |-> "cooldown"]

AnalysisOk == [isEssential |-> TRUE, suggestedAction |-> "proceed"]

\* What callers pass to start: the same page twice (its listing changed in
\* between) for one user, another page for another user.
StartInputs ==
    { <<"u1", ProductA, AnalysisCool>>,
      <<"u1", ProductA2, AnalysisOk>>,
      <<"u2", ProductB, AnalysisOk>> }

Calls == 1 .. MaxCalls

\* --------------------------------------------------------- conversions
\* Date.toISOString(): the calendar form of a millisecond count, here the day
\* number and the millisecond of that day (YYYY-MM-DD, HH:mm:ss.sss).
toISOString(ms) == [day |-> ms \div DayMs, msOfDay |-> ms % DayMs]

\* new Date(db.started_at): back to a millisecond count.
NewDate(iso) == iso.day * DayMs + iso.msOfDay

\* .lt / .gt on a TIMESTAMPTZ column: calendar order.
TsLt(a, b) == a.day < b.day \/ (a.day = b.day /\ a.msOfDay < b.msOfDay)

Max(a, b) == IF a >= b THEN a ELSE b

dbToCoolDown(db) ==
    [ id             |-> db.id,
      userId         |-> db.user_id,
      productUrl     |-> db.product_url,
      productInfo    |-> db.product_info,
      analysisResult |-> db.analysis_result,
      startedAt      |-> NewDate(db.started_at),
      expiresAt      |-> NewDate(db.expires_at),
      status         |-> db.status ]

\* ------------------------------------------------------ store statements
Ids(cds) == DOMAIN cds

\* insert(...).select().single(): the table assigns the id.
InsertUpsert(cds, row) ==
    IF \E i \in Ids(cds) : cds[i].user_id = row.user_id
                           /\ cds[i].product_url = row.product_url
    THEN LET i == CHOOSE j \in Ids(cds) : cds[j].user_id = row.user_id
                                         /\ cds[j].product_url = row.product_url
         IN  [cds EXCEPT ![i] = [row EXCEPT !.id = i]]
    ELSE Append(cds, [row EXCEPT !.id = Len(cds) + 1])

InsertRow(cds, row) == Append(cds, [row EXCEPT !.id = Len(cds) + 1])

\* update({status:'expired'}).eq('status','active').lt('expires_at', t)
ExpireAnyNotExpired(cds, t) ==
    [i \in Ids(cds) |->
        IF cds[i].status # "expired" /\ TsLt(cds[i].expires_at, t)
        THEN [cds[i] EXCEPT !.status = "expired"]
        ELSE cds[i]]

ExpireNotYetDue(cds, t) ==
    [i \in Ids(cds) |->
        IF cds[i].status = "active" /\ TsLt(t, cds[i].expires_at)
        THEN [cds[i] EXCEPT !.status = "expired"]
        ELSE cds[i]]

ExpireFirstOnly(cds, t) ==
    LET stale == {i \in Ids(cds) : cds[i].status = "active" /\ TsLt(cds[i].expires_at, t)}
    IN  IF stale = {} THEN cds
        ELSE LET f == CHOOSE i \in stale : \A j \in stale : i <= j
             IN  [cds EXCEPT ![f].status = "expired"]

ExpireRows(cds, t) ==
    [i \in Ids(cds) |->
        IF cds[i].status = "active" /\ TsLt(cds[i].expires_at, t)
        THEN [cds[i] EXCEPT !.status = "expired"]
        ELSE cds[i]]

\* update({status:'cancelled'}).eq('id', coolDownId)
CancelActiveOnly(cds, id) ==
    [i \in Ids(cds) |->
        IF cds[i].id = id /\ cds[i].status = "active"
        THEN [cds[i] EXCEPT !.status = "cancelled"]
        ELSE cds[i]]

CancelAndClose(cds, id) ==
    [i \in Ids(cds) |->
        IF cds[i].id = id
        THEN [cds[i] EXCEPT !.status = "cancelled", !.expires_at = cds[i].started_at]
        ELSE cds[i]]

CancelRow(cds, id) ==
    [i \in Ids(cds) |->
        IF cds[i].id = id THEN [cds[i] EXCEPT !.status = "cancelled"] ELSE cds[i]]

\* .order('expires_at', {ascending}): ties are broken by row id here.
RECURSIVE OrderByExpiresAt(_, _, _)
OrderByExpiresAt(cds, ids, ascending) ==
    IF ids = {} THEN <<>>
    ELSE LET first == CHOOSE i \in ids : \A j \in ids :
                 \/ i = j
                 \/ (IF ascending THEN TsLt(cds[i].expires_at, cds[j].expires_at)
                                  ELSE TsLt(cds[j].expires_at, cds[i].expires_at))
                 \/ (cds[i].expires_at = cds[j].expires_at /\ i < j)
         IN  <<cds[first]>> \o OrderByExpiresAt(cds, ids \ {first}, ascending)

Limit(s, n) == IF Len(s) <= n THEN s ELSE SubSeq(s, 1, n)

MapDbToCoolDown(s) == [k \in 1 .. Len(s) |-> dbToCoolDown(s[k])]

\* select('*').eq('user_id').eq('product_url').eq('status','active')
ActiveOfPair(cds, userId, productUrl) ==
    {i \in Ids(cds) : /\ cds[i].user_id = userId
                      /\ cds[i].product_url = productUrl
                      /\ cds[i].status = "active"}

ActiveOfUser(cds, userId) ==
    {i \in Ids(cds) : cds[i].user_id = userId /\ cds[i].status = "active"}

ExpiredOfUser(cds, userId) ==
    {i \in Ids(cds) : cds[i].user_id = userId /\ cds[i].status = "expired"}

\* .single(): data only when exactly one row matches, otherwise an error.
Single(cds, ids) ==
    IF Cardinality(ids) = 1
    THEN [error |-> FALSE, data |-> <<cds[CHOOSE i \in ids : TRUE]>>]
    ELSE [error |-> TRUE, data |-> <<>>]

\* getRemainingTime / formatRemainingTime read the clock when they are called.
getRemainingTime(coolDown, t) == Max(0, coolDown.expiresAt - t)

\* ---------------------------------------------------------------- state
Idle == [op |-> "idle", userId |-> "", productUrl |-> "", began |-> 0,
         sweepFailed |-> FALSE, resweep |-> FALSE]

NoResponse == [op |-> "none", userId |-> "", productUrl |-> "", id |-> 0,
               began |-> 0, failed |-> FALSE, threw |-> FALSE, rows |-> <<>>]

\* throw new Error(`Failed to ...`): the caller gets the error and no value.
Threw(op) == [NoResponse EXCEPT !.op = op, !.failed = TRUE, !.threw = TRUE]

\* No library call is under study.
Nothing == [kind |-> "none"]

\* No profile exists, no profile operation is in flight and the extension
\* has not run yet.
RestIdle ==
    /\ profiles = <<>>
    /\ requests = <<>>
    /\ storage = [userId |-> ""]
    /\ handlers = <<>>
    /\ shown = {}
    /\ uuids = 0

Init ==
    /\ now = 0
    /\ ticks = 0
    /\ cooldowns = <<>>
    /\ calls = [c \in Calls |-> Idle]
    /\ response = NoResponse
    /\ startArgs = <<>>
    /\ RestIdle
    /\ input = Nothing
    /\ output = Nothing

\* The clock advances.
Tick ==
    /\ ticks < MaxTicks
    /\ \E d \in TickSteps : now' = now + d
    /\ ticks' = ticks + 1
    /\ response' = NoResponse
    /\ UNCHANGED <<cooldowns, calls, startArgs, input, output, restVars>>

\* CoolDownManager.start
Start ==
    \E in \in StartInputs, ok \in BOOLEAN :
        LET userId    == in[1]
            product   == in[2]
            analysis  == in[3]
            expiresAt == now + COOLDOWN_DURATION_MS
            row == [ id              |-> 0,
                     user_id         |-> userId,
                     product_url     |-> product.url,
                     product_info    |-> product,
                     analysis_result |-> analysis,
                     started_at      |-> toISOString(now),
                     expires_at      |-> toISOString(expiresAt),
                     status          |-> "active" ]
        IN  /\ Len(cooldowns) < MaxCooldowns
            /\ IF ok
               THEN /\ cooldowns' = InsertRow(cooldowns, row)
                    /\ startArgs' = Append(startArgs,
                           [userId |-> userId, product |-> product,
                            analysis |-> analysis, startedAt |-> now,
                            expiresAt |-> expiresAt])
                    /\ response' = [NoResponse EXCEPT
                           !.op = "start", !.userId = userId,
                           !.productUrl = product.url, !.began = now,
                           !.id = Len(cooldowns') ,
                           !.rows = <<dbToCoolDown(cooldowns'[Len(cooldowns')])>>]
               ELSE /\ UNCHANGED <<cooldowns, startArgs>>
                    /\ response' = Threw("start")
            /\ UNCHANGED <<now, ticks, calls, input, output, restVars>>

\* CoolDownManager.cancel
Cancel ==
    \E id \in 1 .. MaxCooldowns, ok \in BOOLEAN :
        /\ cooldowns' = IF ok THEN CancelRow(cooldowns, id) ELSE cooldowns
        /\ response' = IF ok
                       THEN [NoResponse EXCEPT !.op = "cancel", !.id = id,
                                               !.began = now]
                       ELSE Threw("cancel")
        /\ UNCHANGED <<now, ticks, calls, startArgs, input, output, restVars>>

\* CoolDownManager.getExpired (no sweep)
GetExpired ==
    \E userId \in Users, ok \in BOOLEAN :
        /\ response' = IF ok
                       THEN [NoResponse EXCEPT
                                !.op = "getExpired", !.userId = userId,
                                !.began = now,
                                !.rows = MapDbToCoolDown(Limit(OrderByExpiresAt(
                                    cooldowns, ExpiredOfUser(cooldowns, userId),
                                    FALSE), 10))]
                       ELSE Threw("getExpired")
        /\ UNCHANGED <<now, ticks, cooldowns, calls, startArgs, input, output, restVars>>

\* An applied sweep of this instant is on record: a call still in flight ran
\* it, or the call that has just returned did.
SweptNow ==
    \/ \E c \in Calls : /\ calls[c].op # "idle"
                        /\ calls[c].began = now
                        /\ ~calls[c].sweepFailed
    \/ /\ response.op \in {"check", "getActive"}
       /\ response.began = now
       /\ ~response.failed

\* expireOldCooldowns(): one update statement; its result is not read, so
\* the caller goes on to its select whether or not the statement was applied.
expireOldCooldowns(c, op, userId, productUrl, ok) ==
    /\ cooldowns' = IF ok THEN ExpireRows(cooldowns, toISOString(now))
                    ELSE cooldowns
    /\ calls' = [calls EXCEPT ![c] =
           [op |-> op, userId |-> userId, productUrl |-> productUrl,
            began |-> now, sweepFailed |-> ~ok, resweep |-> ok /\ SweptNow]]
    /\ response' = NoResponse
    /\ UNCHANGED <<now, ticks, startArgs, input, output, restVars>>

\* CoolDownManager.check, first half (up to the await of the sweep)
BeginCheck ==
    \E c \in Calls, userId \in Users, productUrl \in Urls, ok \in BOOLEAN :
        /\ calls[c] = Idle
        /\ \A d \in Calls : d < c => calls[d] # Idle
        /\ expireOldCooldowns(c, "check", userId, productUrl, ok)

\* CoolDownManager.getActive, first half (up to the await of the sweep)
BeginGetActive ==
    \E c \in Calls, userId \in Users, ok \in BOOLEAN :
        /\ calls[c] = Idle
        /\ \A d \in Calls : d < c => calls[d] # Idle
        /\ expireOldCooldowns(c, "getActive", userId, "", ok)

\* CoolDownManager.check, second half: the select with .single()
FinishCheck ==
    \E c \in Calls, ok \in BOOLEAN :
        LET call == calls[c]
            res  == IF ok
                    THEN Single(cooldowns,
                             ActiveOfPair(cooldowns, call.userId, call.productUrl))
                    ELSE [error |-> TRUE, data |-> <<>>]
        IN  /\ call.op = "check"
            /\ response' = [NoResponse EXCEPT
                   !.op = "check", !.userId = call.userId,
                   !.productUrl = call.productUrl, !.began = call.began,
                   !.failed = call.sweepFailed \/ ~ok,
                   !.threw = FALSE,
                   !.rows = IF res.error \/ res.data = <<>> THEN <<>>
                            ELSE MapDbToCoolDown(res.data)]
            /\ calls' = [calls EXCEPT ![c] = Idle]
            /\ UNCHANGED <<now, ticks, cooldowns, startArgs, input, output, restVars>>

\* CoolDownManager.getActive, second half: the ordered select
FinishGetActive ==
    \E c \in Calls, ok \in BOOLEAN :
        LET call == calls[c]
        IN  /\ call.op = "getActive"
            /\ response' = IF ok
                           THEN [NoResponse EXCEPT
                                    !.op = "getActive", !.userId = call.userId,
                                    !.began = call.began,
                                    !.failed = call.sweepFailed,
                                    !.rows = MapDbToCoolDown(OrderByExpiresAt(
                                        cooldowns,
                                        ActiveOfUser(cooldowns, call.userId), TRUE))]
                           ELSE Threw("getActive")
            /\ calls' = [calls EXCEPT ![c] = Idle]
            /\ UNCHANGED <<now, ticks, cooldowns, startArgs, input, output, restVars>>

Next ==
    \/ Tick
    \/ Start
    \/ Cancel
    \/ GetExpired
    \/ BeginCheck
    \/ BeginGetActive
    \/ FinishCheck
    \/ FinishGetActive

Spec == Init /\ [][Next]_vars

TypeOK ==
    /\ now \in Nat
    /\ ticks \in 0 .. MaxTicks
    /\ Len(cooldowns) <= MaxCooldowns
    /\ \A i \in Ids(cooldowns) :
           /\ cooldowns[i].id = i
           /\ cooldowns[i].status \in {"active", "expired", "cancelled"}
    /\ Len(startArgs) = Len(cooldowns)

\* ------------------------------------------------------------ properties
Returned == {response.rows[k] : k \in 1 .. Len(response.rows)}

PastExpiry(i) == TsLt(cooldowns[i].expires_at, toISOString(now))

\* C1: check and getActive never return a cool-down whose expiresAt is
\* earlier than the time at which the call began, whatever the outcome of the
\* individual store requests.
C1_NeverReportedPastExpiry ==
    response.op \in {"check", "getActive"} =>
        \A cd \in Returned : cd.expiresAt >= response.began

\* C2 as stated: a record whose status is expired or cancelled never changes
\* status again.
C2_NoTransitionOutOfExpiredOrCancelled ==
    [][\A i \in Ids(cooldowns) :
           cooldowns[i].status \in {"expired", "cancelled"} =>
               cooldowns'[i].status = cooldowns[i].status]_vars

\* C2 as amended: a status changes only by active -> expired, active ->
\* cancelled or expired -> cancelled; a cancelled record never changes status
\* again and no record ever returns to active.
C2_StatusTransitions ==
    [][\A i \in Ids(cooldowns) :
           /\ i \in Ids(cooldowns')
           /\ \/ cooldowns'[i].status = cooldowns[i].status
              \/ /\ cooldowns[i].status = "active"
                 /\ cooldowns'[i].status \in {"expired", "cancelled"}
              \/ /\ cooldowns[i].status = "expired"
                 /\ cooldowns'[i].status = "cancelled"]_vars

\* An expired and a cancelled record both past their expiry, with a read
\* (and its sweep) completed on top of them.
C2_Witness ==
    /\ response.op \in {"check", "getActive"}
    /\ ~response.failed
    /\ \E i, j \in Ids(cooldowns) :
           /\ cooldowns[i].status = "expired"
           /\ cooldowns[j].status = "cancelled"
           /\ PastExpiry(j)

\* C3: once cancelled, a record stays cancelled under every later operation
\* and every interleaving with expiry sweeps, even past its expiresAt.
C3_CancelledIsTerminal ==
    [][\A i \in Ids(cooldowns) :
           cooldowns[i].status = "cancelled" =>
               /\ i \in Ids(cooldowns')
               /\ cooldowns'[i].status = "cancelled"]_vars

\* A cancelled record whose expiry had passed when a sweep was applied.
C3_Witness ==
    \E c \in Calls, i \in Ids(cooldowns) :
        /\ calls[c].op # "idle"
        /\ ~calls[c].sweepFailed
        /\ cooldowns[i].status = "cancelled"
        /\ TsLt(cooldowns[i].expires_at, toISOString(calls[c].began))

\* C4: a check whose store requests succeed returns none only when the store
\* holds no active cool-down for the pair, and otherwise returns an active
\* cool-down of that pair.
C4_CheckFindsActive ==
    (response.op = "check" /\ ~response.failed) =>
        LET active == ActiveOfPair(cooldowns, response.userId, response.productUrl)
        IN  IF active = {}
            THEN response.rows = <<>>
            ELSE /\ Len(response.rows) = 1
                 /\ response.rows[1].id \in active

C6_CancelFrame ==
    [][(response'.op = "cancel" /\ ~response'.threw) =>
           cooldowns' = [i \in Ids(cooldowns) |->
                            IF i = response'.id
                            THEN [cooldowns[i] EXCEPT !.status = "cancelled"]
                            ELSE cooldowns[i]]]_vars

\* A cancel has just marked a record that was already past its expiry, next
\* to another record that keeps its own status.
C6_Witness ==
    /\ response.op = "cancel"
    /\ ~response.threw
    /\ response.id \in Ids(cooldowns)
    /\ cooldowns[response.id].status = "cancelled"
    /\ PastExpiry(response.id)
    /\ \E j \in Ids(cooldowns) : cooldowns[j].status = "expired"

\* C7: every store failure inside an operation is surfaced to the caller as
\* an error.
C7_FailuresSurface == response.failed => response.threw

\* C8: userId, productUrl, productInfo, analysisResult, startedAt and
\* expiresAt of every stored record are the values start was given (and
\* computed) and no operation modifies them.
C8_SnapshotImmutable ==
    \A i \in Ids(cooldowns) :
        LET cd == dbToCoolDown(cooldowns[i])
            a  == startArgs[i]
        IN  /\ cd.id = i
            /\ cd.userId = a.userId
            /\ cd.productUrl = a.product.url
            /\ cd.productInfo = a.product
            /\ cd.analysisResult = a.analysis
            /\ cd.startedAt = a.startedAt
            /\ cd.expiresAt = a.expiresAt

\* Two records of the same page hold different snapshots, and both the sweep
\* and cancel have acted on stored records.
C8_Witness ==
    \E i, j \in Ids(cooldowns) :
        /\ cooldowns[i].product_url = cooldowns[j].product_url
        /\ cooldowns[i].product_info # cooldowns[j].product_info
        /\ cooldowns[i].status = "expired"
        /\ cooldowns[j].status = "cancelled"

\* C9: every record start creates begins active, and every stored record
\* has expiresAt exactly 24 hours after startedAt.
C9_ExpiresAfter24h ==
    /\ \A i \in Ids(cooldowns) :
           NewDate(cooldowns[i].expires_at) - NewDate(cooldowns[i].started_at)
               = 24 * HourMs
    /\ (response.op = "start" /\ ~response.threw) =>
           /\ response.rows[1].status = "active"
           /\ response.rows[1].expiresAt - response.rows[1].startedAt = 24 * HourMs
           /\ cooldowns[response.id].status = "active"

\* start has just created a second record, at a later time than the first.
C9_Witness ==
    /\ response.op = "start"
    /\ ~response.threw
    /\ response.id = 2
    /\ cooldowns[1].started_at # cooldowns[2].started_at

\* C10: a sweep run when a sweep of the same instant has already been applied
\* changes no record and raises no error.
C10_SweepIdempotent ==
    [][(SweptNow /\ \E c \in Calls : calls[c] = Idle /\ calls'[c] # Idle) =>
           /\ cooldowns' = cooldowns
           /\ response' = NoResponse]_vars

\* The second sweep of an instant has been applied, over records the first
\* one expired.
C10_Witness ==
    \E c \in Calls :
        /\ calls[c].resweep
        /\ \E i, j \in Ids(cooldowns) :
               /\ i # j
               /\ cooldowns[i].status = "expired"
               /\ cooldowns[j].status = "expired"

\* ====================================================================
\* The pure library functions (lib/opportunity-cost.ts, lib/gemini.ts,
\* lib/product-extractor.ts, lib/pricing-analyzer.ts).
\*
\* Money is an integer number of thousandths of the currency unit ("mills")
\* for prices and of hundredths ("cents") for values rounded to 2 decimals;
\* scores and confidences are hundredths.  A JavaScript string the code
\* inspects character by character is a sequence of one-character strings.
\* ====================================================================

\* --------------------------------------------------------------- bounds
MaxSmallPrice == 120

\* -------------------------------------------------------------- strings
LowerCase ==
    <<"a", "b", "c", "d", "e", "f", "g", "h", "i", "j", "k", "l", "m",
      "n", "o", "p", "q", "r", "s", "t", "u", "v", "w", "x", "y", "z">>

UpperCase ==
    <<"A", "B", "C", "D", "E", "F", "G", "H", "I", "J", "K", "L", "M",
      "N", "O", "P", "Q", "R", "S", "T", "U", "V", "W", "X", "Y", "Z">>

Range(s) == {s[k] : k \in 1 .. Len(s)}

Letters == Range(LowerCase) \cup Range(UpperCase)

\* an optional argument or field: absent (undefined) or present with a value
Undefined(zero) == [some |-> FALSE, v |-> zero]

Some(v) == [some |-> TRUE, v |-> v]

\* ------------------------------------------------- lib/opportunity-cost.ts
\* Math.pow(1 + ANNUAL_GROWTH_RATE, years) = 1.07^years to 12 decimals, in
\* four limbs of three digits: <<1402, 551, 730, 700>> is 1.402551730700.
Pow107(years) ==
    CASE years = 5  -> <<1402, 551, 730, 700>>
      [] years = 10 -> <<1967, 151, 357, 289>>
      [] years = 20 -> <<3869, 684, 462, 486>>

FlatProjection(principal, years) == (principal + 5) \div 10

\* Math.round(compoundInterest(principal, ANNUAL_GROWTH_RATE, years) * 100):
\* the projection in cents of a principal in mills.  The product is formed
\* limb by limb so that every intermediate value fits 32 bits.

compoundInterestCents(principal, years) ==
    LET g == Pow107(years)
        c3 == (principal * g[4]) \div 1000
        c2 == (principal * g[3] + c3) \div 1000
        c1 == (principal * g[2] + c2) \div 1000
    IN  (principal * g[1] + c1 + 5000) \div 10000

\* Intl.NumberFormat accepts a currency code only if it is three letters.
IsWellFormedCurrencyCode(currency) ==
    /\ Len(currency) = 3
    /\ \A k \in 1 .. Len(currency) : currency[k] \in Letters

USD == <<"U", "S", "D">>

\* formatCurrency: the formatted amount (2 fraction digits, so cents), or
\* the RangeError the NumberFormat constructor throws.
formatCurrency(cents, currency) ==
    IF IsWellFormedCurrencyCode(currency)
    THEN [threw |-> FALSE,
          text |-> [locale |-> IF currency = USD THEN "en-US" ELSE "en-GB",
                    currency |-> currency, cents |-> cents]]
    ELSE [threw |-> TRUE,
          text |-> [locale |-> "", currency |-> currency, cents |-> 0]]

NoText == [kind |-> "", price |-> 0, grown |-> 0]

ZeroCost == [amount |-> 0, years5 |-> 0, years10 |-> 0, years20 |-> 0,
             comparisonText |-> NoText]

\* calculateOpportunityCost(price, currency = 'USD'): price in mills.
calculateOpportunityCost(price, currencyArg) ==
    LET currency == IF currencyArg.some THEN currencyArg.v ELSE USD
        years5  == compoundInterestCents(price, 5)
        years10 == compoundInterestCents(price, 10)
        years20 == compoundInterestCents(price, 20)
        formattedPrice == formatCurrency((price + 5) \div 10, currency)
        formatted20yr  == formatCurrency(years20, currency)
    IN  IF price <= 0
        THEN [threw |-> FALSE,
              value |-> [ZeroCost EXCEPT
                            !.comparisonText.kind = "Enter a valid price"]]
        ELSE IF formattedPrice.threw \/ formatted20yr.threw
        THEN [threw |-> TRUE, value |-> ZeroCost]
        ELSE [threw |-> FALSE,
              value |-> [amount |-> price, years5 |-> years5,
                         years10 |-> years10, years20 |-> years20,
                         comparisonText |->
                             [kind |-> "Investing", 
                              price |-> formattedPrice.text.cents,
                              grown |-> formatted20yr.text.cents]]]

\* ---------------------------------------------------------- lib/gemini.ts
MaxWarnings == 2

\* A value of the parsed JSON reply.  n is in hundredths; a number the
\* conversion cannot produce is NaN.
JUndefined == [t |-> "undefined", b |-> FALSE, n |-> 0, s |-> ""]

JNull == [t |-> "null", b |-> FALSE, n |-> 0, s |-> ""]

JBool(b) == [t |-> "boolean", b |-> b, n |-> 0, s |-> ""]

JNum(n) == [t |-> "number", b |-> FALSE, n |-> n, s |-> ""]

JStr(s) == [t |-> "string", b |-> FALSE, n |-> 0, s |-> s]

\* Boolean(v)
Truthy(v) ==
    CASE v.t = "boolean" -> v.b
      [] v.t = "number"  -> v.n # 0
      [] v.t = "string"  -> v.s # ""
      [] OTHER           -> FALSE

NaN == [nan |-> TRUE, n |-> 0]

Num(n) == [nan |-> FALSE, n |-> n]

\* Number(s) for a string: the empty string is 0, a decimal literal its
\* value, anything else NaN.
StringToNumber(s) ==
    CASE s = ""    -> Num(0)
      [] s = "0"   -> Num(0)
      [] s = "0.7" -> Num(70)
      [] s = "0.8" -> Num(80)
      [] s = "3"   -> Num(300)
      [] OTHER     -> NaN

\* Number(v)
Number(v) ==
    CASE v.t = "undefined" -> NaN
      [] v.t = "null"      -> Num(0)
      [] v.t = "boolean"   -> Num(IF v.b THEN 100 ELSE 0)
      [] v.t = "number"    -> Num(v.n)
      [] v.t = "string"    -> StringToNumber(v.s)

\* String(v || fallback), for the strings and booleans a reply carries
StringOr(v, fallback) ==
    IF ~Truthy(v) THEN fallback
    ELSE IF v.t = "boolean" THEN "true" ELSE v.s

Min(a, b) == IF a <= b THEN a ELSE b

\* Math.max(0, Math.min(1, Number(v) || 0.5))
ClampOrDefault(v) ==
    LET x == Number(v)
    IN  Max(0, Min(100, IF x.nan \/ x.n = 0 THEN 50 ELSE x.n))

FALLBACK_ANALYSIS ==
    [isEssential |-> FALSE,
     essentialityScore |-> 50,
     reasoning |-> "We couldn't analyze this purchase right now. Consider waiting 24 hours before deciding.",
     warnings |-> <<>>,
     opportunityCost |-> ZeroCost,
     personalizedMessage |-> "Take a moment to reflect on whether you truly need this item.",
     suggestedAction |-> "cooldown"]

\* the result of a call that threw: no value
Thrown == [threw |-> TRUE, value |-> FALLBACK_ANALYSIS]

Returns(value) == [threw |-> FALSE, value |-> value]

\* content.match(/```(?:json)?\s*([\s\S]*?)```/) and JSON.parse(jsonStr.trim()):
\* the text of the first fenced block if there is one, else the whole
\* content; text that is not exactly one JSON document is a SyntaxError.
JSONparse(content) ==
    IF content.doc.t \in {"garbage", "empty"} \/ (content.prose /\ ~content.fenced)
    THEN [threw |-> TRUE, doc |-> content.doc]
    ELSE [threw |-> FALSE, doc |-> content.doc]

\* parsed.warnings.map(w => ...): reading a field of a null element is a
\* TypeError.
MapWarnings(items) ==
    IF \E k \in 1 .. Len(items) : items[k].isNull
    THEN [threw |-> TRUE, value |-> <<>>]
    ELSE [threw |-> FALSE,
          value |-> [k \in 1 .. Len(items) |->
              [type |-> IF Truthy(items[k].type) THEN items[k].type
                        ELSE JStr("inflated_price"),
               confidence |-> ClampOrDefault(items[k].confidence),
               explanation |-> StringOr(items[k].explanation, "")]]]

ValidatedAction(v) ==
    IF v.t = "string" /\ v.s \in {"proceed", "cooldown", "skip"}
    THEN v.s ELSE "cooldown"

parseAIResponse(content, product) ==
    LET parsed   == JSONparse(content)
        cost     == calculateOpportunityCost(product.price, product.currency)
        warnings == IF parsed.doc.warnings.isArray
                    THEN MapWarnings(parsed.doc.warnings.items)
                    ELSE [threw |-> FALSE, value |-> <<>>]
    IN  IF parsed.threw \/ cost.threw \/ parsed.doc.t = "null" \/ warnings.threw
        THEN \* catch
             IF cost.threw THEN Thrown
             ELSE Returns([FALLBACK_ANALYSIS EXCEPT !.opportunityCost = cost.value])
        ELSE Returns(
             [isEssential |-> Truthy(parsed.doc.isEssential),
              essentialityScore |-> ClampOrDefault(parsed.doc.essentialityScore),
              reasoning |-> StringOr(parsed.doc.reasoning, "Unable to analyze"),
              warnings |-> warnings.value,
              opportunityCost |-> cost.value,
              personalizedMessage |->
                  StringOr(parsed.doc.personalizedMessage,
                           "Consider your financial goals before purchasing."),
              suggestedAction |-> ValidatedAction(parsed.doc.suggestedAction)])

\* analyzePurchase: reply is the outcome of ai.models.generateContent, an
\* error or a response whose text (or '' when it has none) is parsed.
analyzePurchase(product, reply) ==
    LET parsed == parseAIResponse(reply.content, product)
        cost   == calculateOpportunityCost(product.price, product.currency)
    IN  IF ~reply.failed /\ ~parsed.threw
        THEN parsed
        ELSE \* catch
             IF cost.threw THEN Thrown
             ELSE Returns([FALLBACK_ANALYSIS EXCEPT !.opportunityCost = cost.value])

\* ------------------------------------------- inputs of the analysis calls
TV == <<"T", "V">>

AnalyzedPrices == {0, 0 - 5000, 3, 19990, 100000}

AnalyzedCurrencies ==
    {Some(USD), Some(<<"E", "U", "R">>), Some(<<"U", "S">>), Undefined(<<>>)}

\* The products POSTed to /api/analyze: any JSON with these fields.
AnalyzedProducts ==
    {[name |-> TV, price |-> p, currency |-> c] :
        p \in AnalyzedPrices, c \in AnalyzedCurrencies}

ReplyWarnings ==
    {[isNull |-> FALSE, type |-> JStr("fake_discount"), confidence |-> JNum(40),
      explanation |-> JStr("Was never sold at the list price.")],
     [isNull |-> FALSE, type |-> JStr("scam"), confidence |-> JNum(170),
      explanation |-> JUndefined],
     [isNull |-> FALSE, type |-> JUndefined, confidence |-> JStr("0.8"),
      explanation |-> JStr("")],
     [isNull |-> TRUE, type |-> JUndefined, confidence |-> JUndefined,
      explanation |-> JUndefined]}

SeqsUpTo(S, n) == UNION {[1 .. k -> S] : k \in 0 .. n}

ReplyWarningLists ==
    {[isArray |-> FALSE, items |-> <<>>]}
    \cup {[isArray |-> TRUE, items |-> w] : w \in SeqsUpTo(ReplyWarnings, MaxWarnings)}

ReplyScores ==
    {JUndefined, JNull, JNum(0), JNum(30), JNum(100), JNum(150),
     JNum(0 - 20), JStr("0.7"), JStr("high")}

ReplyActions == {JUndefined, JStr("proceed"), JStr("skip"), JStr("buy")}

ReplyHeads ==
    {[isEssential |-> JBool(TRUE), reasoning |-> JStr("Groceries."),
      personalizedMessage |-> JStr("Fits your budget.")],
     [isEssential |-> JStr("no"), reasoning |-> JUndefined,
      personalizedMessage |-> JStr("")],
     [isEssential |-> JUndefined, reasoning |-> JBool(TRUE),
      personalizedMessage |-> JUndefined]}

Doc(t, head, score, warnings, action) ==
    [t |-> t, isEssential |-> head.isEssential,
     essentialityScore |-> score, reasoning |-> head.reasoning,
     warnings |-> warnings, personalizedMessage |-> head.personalizedMessage,
     suggestedAction |-> action]

NoFields ==
    [isEssential |-> JUndefined, reasoning |-> JUndefined,
     personalizedMessage |-> JUndefined]

\* JSON objects, and the texts that are no object: null, a JSON number,
\* text that is no JSON, no text at all.
ReplyDocs ==
    {Doc("object", h, s, w, a) :
        h \in ReplyHeads, s \in ReplyScores, w \in ReplyWarningLists,
        a \in ReplyActions}
    \cup {Doc(t, NoFields, JUndefined, [isArray |-> FALSE, items |-> <<>>],
              JUndefined) : t \in {"null", "primitive", "garbage", "empty"}}

Replies ==
    {[failed |-> FALSE, content |-> [fenced |-> f, prose |-> f, doc |-> d]] :
        f \in BOOLEAN, d \in ReplyDocs}
    \cup {[failed |-> FALSE,
           content |-> [fenced |-> FALSE, prose |-> TRUE, doc |-> d]] :
             d \in {x \in ReplyDocs : x.t = "primitive"
                       \/ (x.t = "object" /\ x.essentialityScore = JNum(30)
                           /\ x.warnings.items = <<>>)}}
    \cup {[failed |-> TRUE,
           content |-> [fenced |-> FALSE, prose |-> FALSE, doc |-> d]] :
             d \in {x \in ReplyDocs : x.t = "empty"}}

NoOutput == [op |-> "none", status |-> 0, threw |-> FALSE,
             value |-> FALLBACK_ANALYSIS]

AnalyzeInit ==
    /\ now = 0
    /\ ticks = 0
    /\ cooldowns = <<>>
    /\ calls = [c \in Calls |-> Idle]
    /\ response = NoResponse
    /\ startArgs = <<>>
    /\ RestIdle
    /\ input \in [product : AnalyzedProducts, reply : Replies]
    /\ output = NoOutput

coolVars == <<now, ticks, cooldowns, calls, response, startArgs>>

\* POST /api/analyze, the guard: a product without name or price is a 400.
PostAnalyzeInvalid ==
    /\ output.op = "none"
    /\ input.product.name = <<>> \/ input.product.price = 0
    /\ output' = [NoOutput EXCEPT !.op = "POST /api/analyze", !.status = 400]
    /\ UNCHANGED <<coolVars, input, restVars>>

\* POST /api/analyze past the guard: await analyzePurchase(product).
AnalyzePurchase ==
    LET r == analyzePurchase(input.product, input.reply)
    IN  /\ output.op = "none"
        /\ input.product.name # <<>> /\ input.product.price # 0
        /\ output' = [op |-> "analyzePurchase", status |-> 0,
                      threw |-> r.threw, value |-> r.value]
        /\ UNCHANGED <<coolVars, input, restVars>>

\* parseAIResponse(content, product), called on a reply that has text.
ParseAIResponse ==
    LET r == parseAIResponse(input.reply.content, input.product)
    IN  /\ output.op = "none"
        /\ ~input.reply.failed
        /\ output' = [op |-> "parseAIResponse", status |-> 0,
                      threw |-> r.threw, value |-> r.value]
        /\ UNCHANGED <<coolVars, input, restVars>>

AnalyzeNext ==
    \/ PostAnalyzeInvalid
    \/ AnalyzePurchase
    \/ ParseAIResponse

SpecAnalyze == AnalyzeInit /\ [][AnalyzeNext]_vars

AnalyzeTypeOK ==
    /\ output.op \in {"none", "POST /api/analyze", "analyzePurchase", "parseAIResponse"}
    /\ output.status \in {0, 400}
    /\ output.value.essentialityScore \in 0 .. 100
    /\ output.value.suggestedAction \in {"proceed", "cooldown", "skip"}

\* ---------------------------------------------- claims on the analysis
\* The reply gave no usable recommendation: the call failed, or its text is
\* not JSON.
NoUsableReply == input.reply.failed \/ JSONparse(input.reply.content).threw

\* The reply is a JSON object every field of which can be read.
ObjectReply ==
    /\ ~input.reply.failed
    /\ ~JSONparse(input.reply.content).threw
    /\ input.reply.content.doc.t = "object"

\* C11: when the inference call fails or its reply is not JSON,
\* analyzePurchase returns the fixed fallback (suggestedAction cooldown)
\* whose opportunity cost is that of the product's price: amount = price and
\* no projection is zero.
C11_FallbackWithRealCost ==
    (output.op = "analyzePurchase" /\ NoUsableReply)
        => /\ ~output.threw
           /\ output.value.suggestedAction = "cooldown"
           /\ output.value.reasoning = FALLBACK_ANALYSIS.reasoning
           /\ output.value.opportunityCost.amount = input.product.price
           /\ output.value.opportunityCost.years5 # 0
           /\ output.value.opportunityCost.years10 # 0
           /\ output.value.opportunityCost.years20 # 0

\* C12: analyzePurchase never rejects, whatever product the route accepted
\* and whatever the inference call did.
C12_NeverRejects == output.op = "analyzePurchase" => ~output.threw

WarningTypes == {"fake_discount", "urgency_manipulation", "inflated_price"}

\* C13: for a reply that is a JSON object, parseAIResponse returns a
\* recommendation whose essentialityScore is in [0,1], whose suggestedAction
\* is proceed, cooldown or skip (cooldown when the reply's value is none of
\* them) and whose warnings each have one of the three types and a
\* confidence in [0,1].
C13_ParsedIsWellFormed ==
    (output.op = "parseAIResponse" /\ ObjectReply)
        => /\ ~output.threw
           /\ output.value.isEssential \in BOOLEAN
           /\ output.value.essentialityScore \in 0 .. 100
           /\ output.value.suggestedAction \in {"proceed", "cooldown", "skip"}
           /\ (input.reply.content.doc.suggestedAction.s
                   \notin {"proceed", "cooldown", "skip"}
               => output.value.suggestedAction = "cooldown")
           /\ \A k \in 1 .. Len(output.value.warnings) :
                  /\ output.value.warnings[k].type.t = "string"
                  /\ output.value.warnings[k].type.s \in WarningTypes
                  /\ output.value.warnings[k].confidence \in 0 .. 100

\* C14: for a reply that is a JSON object with readable warnings,
\* parseAIResponse returns the reply's numeric essentialityScore clamped to
\* [0,1] (0 stays 0), and 0.5 only if that is the clamped value or the
\* field is missing or no number.
C14_ScoreIsClampedValue ==
    LET given == input.reply.content.doc.essentialityScore
    IN  (/\ output.op = "parseAIResponse"
         /\ ObjectReply
         /\ ~output.threw
         /\ ~MapWarnings(input.reply.content.doc.warnings.items).threw)
            => /\ given.t = "number"
                    => output.value.essentialityScore = Max(0, Min(100, given.n))
               /\ output.value.essentialityScore = 50
                    => given.t # "number" \/ given.n = 50

\* ------------------------------------------------ lib/product-extractor.ts
MaxTexts == 6

MaxMixedTexts == 3

DigitChars == <<"0", "1", "2", "3", "4", "5", "6", "7", "8", "9">>

Digits == Range(DigitChars)

IsDigit(c) == c \in Digits

DigitValue(c) == (CHOOSE k \in 1 .. 10 : DigitChars[k] = c) - 1

LowerOf ==
    [c \in Range(UpperCase) |->
        LowerCase[CHOOSE k \in 1 .. Len(UpperCase) : UpperCase[k] = c]]

\* the /i flag: letters compare by their lower-case form
ToLower(c) == IF c \in DOMAIN LowerOf THEN LowerOf[c] ELSE c

\* text.substring(0, n)
Substring0(text, n) == SubSeq(text, 1, Min(n, Len(text)))

\* The regular expressions the code uses are sequences of items: a literal
\* (compared ignoring case), \d+, a group of alternatives, an optional
\* literal.
Lit(s) == [k |-> "lit", s |-> s, a |-> <<>>]

DigitsPlus == [k |-> "digits", s |-> <<>>, a |-> <<>>]

Alt(a) == [k |-> "alt", s |-> <<>>, a |-> a]

Opt(s) == [k |-> "opt", s |-> s, a |-> <<>>]

HasPrefix(text, i, lit) ==
    /\ i + Len(lit) - 1 <= Len(text)
    /\ \A j \in 1 .. Len(lit) : ToLower(text[i + j - 1]) = lit[j]

RECURSIVE RunEnd(_, _, _)
\* the end of the run of characters of a class that starts at position i
RunEnd(text, i, class) ==
    IF i <= Len(text) /\ text[i] \in class THEN RunEnd(text, i + 1, class)
    ELSE i

RECURSIVE MatchAt(_, _, _)
\* the items match the text from position i on
MatchAt(items, text, i) ==
    IF Len(items) = 0 THEN TRUE
    ELSE LET h == Head(items)
             t == Tail(items)
         IN  CASE h.k = "lit" ->
                    HasPrefix(text, i, h.s) /\ MatchAt(t, text, i + Len(h.s))
               [] h.k = "digits" ->
                    \E n \in 1 .. (RunEnd(text, i, Digits) - i) :
                        MatchAt(t, text, i + n)
               [] h.k = "alt" ->
                    \E j \in 1 .. Len(h.a) :
                        /\ HasPrefix(text, i, h.a[j])
                        /\ MatchAt(t, text, i + Len(h.a[j]))
               [] h.k = "opt" ->
                    \/ MatchAt(t, text, i)
                    \/ HasPrefix(text, i, h.s) /\ MatchAt(t, text, i + Len(h.s))

\* pattern.test(text): the pattern matches somewhere in the text
Test(pattern, text) == \E i \in 1 .. Len(text) + 1 : MatchAt(pattern, text, i)

\* URGENCY_PATTERNS of the extractor
URGENCY_PATTERNS ==
    << <<Lit(<<"o", "n", "l", "y", " ">>), DigitsPlus, Lit(<<" ", "l", "e", "f", "t">>)>>,
       <<Lit(<<"l", "i", "m", "i", "t", "e", "d">>)>>,
       <<Lit(<<"s", "a", "l", "e", " ", "e", "n", "d", "s">>)>>,
       <<Lit(<<"h", "u", "r", "r", "y">>)>>,
       <<Lit(<<"l", "a", "s", "t", " ", "c", "h", "a", "n", "c", "e">>)>>,
       <<Lit(<<"s", "e", "l", "l", "i", "n", "g", " ", "f", "a", "s", "t">>)>>,
       <<DigitsPlus, Lit(<<" ">>), Alt(<<<<"p", "e", "o", "p", "l", "e">>, <<"o", "t", "h", "e", "r", "s">>>>)>>,
       <<Lit(<<"f", "l", "a", "s", "h", " ", "s", "a", "l", "e">>)>>,
       <<Lit(<<"e", "n", "d", "s", " ", "i", "n">>)>>,
       <<Lit(<<"w", "h", "i", "l", "e", " ", "s", "u", "p", "p", "l", "i", "e", "s", " ", "l", "a", "s", "t">>)>> >>

NoUrgencyCheck(text) == TRUE

containsUrgencyIndicator(text) ==
    \E p \in 1 .. Len(URGENCY_PATTERNS) : Test(URGENCY_PATTERNS[p], text)

RECURSIVE DigitsToInt(_)
DigitsToInt(ds) ==
    IF Len(ds) = 0 THEN 0
    ELSE 10 * DigitsToInt(SubSeq(ds, 1, Len(ds) - 1)) + DigitValue(ds[Len(ds)])

SelectSeqNot(s, c) == SelectSeq(s, LAMBDA x : x # c)

\* parseFloat of digits, an optional point and digits, in mills (the texts
\* studied carry at most three decimals); NaN when there is no digit.
parseFloat(intDigits, fracDigits) ==
    LET frac == Substring0(fracDigits \o <<"0", "0", "0">>, 3)
    IN  IF Len(intDigits) = 0 /\ Len(fracDigits) = 0
        THEN [kind |-> "nan", v |-> 0]
        ELSE [kind |-> "number",
              v |-> 1000 * DigitsToInt(intDigits) + DigitsToInt(frac)]

\* parsePrice: text.match(/[\d,]+\.?\d*/), commas removed, parseFloat.
parsePrice(textArg) ==
    LET text   == textArg.v
        class  == Digits \cup {","}
        starts == {i \in 1 .. Len(text) : text[i] \in class}
        i      == CHOOSE s \in starts : \A o \in starts : s <= o
        j      == RunEnd(text, i, class)
        point  == j <= Len(text) /\ text[j] = "."
        k      == IF point THEN RunEnd(text, j + 1, Digits) ELSE j
    IN  IF ~textArg.some \/ Len(text) = 0 \/ starts = {}
        THEN [kind |-> "null", v |-> 0]
        ELSE parseFloat(SelectSeqNot(SubSeq(text, i, j - 1), ","),
                        IF point THEN SubSeq(text, j + 1, k - 1) ELSE <<>>)

\* parseCurrency: the first of $, euro, pound, yen, rupee the text includes
parseCurrency(textArg) ==
    LET has(c) == textArg.some /\ c \in Range(textArg.v)
    IN  CASE has("$")       -> USD
          [] has("{euro}")  -> <<"E", "U", "R">>
          [] has("{pound}") -> <<"G", "B", "P">>
          [] has("{yen}")   -> <<"J", "P", "Y">>
          [] has("{rupee}") -> <<"I", "N", "R">>
          [] OTHER          -> USD

\* validateProduct, on a record whose fields have the types of
\* ExtractedProduct
validateProduct(product) ==
    /\ Len(product.name) > 0
    /\ product.price > 0
    /\ Len(product.currency) = 3

RECURSIVE TrimStart(_)
TrimStart(s) ==
    IF Len(s) > 0 /\ Head(s) = " " THEN TrimStart(Tail(s)) ELSE s

RECURSIVE TrimEnd(_)
TrimEnd(s) ==
    IF Len(s) > 0 /\ s[Len(s)] = " " THEN TrimEnd(SubSeq(s, 1, Len(s) - 1)) ELSE s

\* String.prototype.trim
Trim(s) == TrimEnd(TrimStart(s))

normalizeProductName(name) == Substring0(Trim(name), 200)

NoNumber == Undefined(0)

\* calculateDiscountPercentage: Math.round(((o - c) / o) * 100), or null
calculateDiscountPercentage(currentPrice, originalPrice) ==
    LET o == originalPrice.v
    IN  IF ~originalPrice.some \/ o = 0 \/ o <= currentPrice
        THEN NoNumber
        ELSE Some((200 * (o - currentPrice) + o) \div (2 * o))

SuspiciousFromEighty(currentPrice, originalPrice) ==
    LET discount == calculateDiscountPercentage(currentPrice, originalPrice)
    IN  discount.some /\ discount.v >= 80

isSuspiciousDiscount(currentPrice, originalPrice) ==
    LET discount == calculateDiscountPercentage(currentPrice, originalPrice)
    IN  discount.some /\ discount.v > 80

NoProduct ==
    [isNull |-> TRUE,
     product |-> [name |-> <<>>, price |-> 0, currency |-> <<>>,
                  originalPrice |-> NoNumber, url |-> "",
                  urgencyIndicators |-> <<>>]]

Falsy(price) == price.kind # "number" \/ price.v = 0

FilterThenTakeAll(texts) ==
    LET kept == SelectSeq(texts, containsUrgencyIndicator)
    IN  [k \in 1 .. Len(kept) |-> Substring0(kept[k], 100)]

\* (data.urgencyTexts || []).filter(...).map(text => text.substring(0, 100))
\*     .slice(0, 5)
FilterMapSlice(texts) ==
    LET kept == SelectSeq(texts, containsUrgencyIndicator)
        cut  == [k \in 1 .. Len(kept) |-> Substring0(kept[k], 100)]
    IN  SubSeq(cut, 1, Min(5, Len(cut)))

extractProductFromData(data) ==
    LET name          == IF data.name.some THEN Trim(data.name.v) ELSE <<>>
        price         == parsePrice(data.priceText)
        originalPrice == parsePrice(data.originalPriceText)
        currency      == parseCurrency(data.priceText)
    IN  IF Len(name) = 0 \/ Falsy(price)
        THEN NoProduct
        ELSE [isNull |-> FALSE,
              product |->
                  [name |-> normalizeProductName(name),
                   price |-> price.v,
                   currency |-> currency,
                   originalPrice |->
                       IF ~Falsy(originalPrice) /\ originalPrice.v > price.v
                       THEN Some(originalPrice.v) ELSE NoNumber,
                   url |-> data.url,
                   urgencyIndicators |->
                       FilterMapSlice(IF data.urgencyTexts.some
                                      THEN data.urgencyTexts.v ELSE <<>>)]]

\* ------------------------------------------------- lib/pricing-analyzer.ts
\* URGENCY_PATTERNS of the analyzer
ANALYZER_URGENCY_PATTERNS ==
    << <<Lit(<<"o", "n", "l", "y", " ">>), DigitsPlus, Lit(<<" ", "l", "e", "f", "t">>)>>,
       <<Lit(<<"l", "i", "m", "i", "t", "e", "d", " ">>), Alt(<<<<"t", "i", "m", "e">>, <<"s", "t", "o", "c", "k">>, <<"q", "u", "a", "n", "t", "i", "t", "y">>>>)>>,
       <<Lit(<<"s", "a", "l", "e", " ", "e", "n", "d", "s", " ">>), Alt(<<<<"i", "n">>, <<"s", "o", "o", "n">>, <<"t", "o", "d", "a", "y">>>>)>>,
       <<Lit(<<"h", "u", "r", "r", "y">>)>>,
       <<Lit(<<"d", "o", "n", "'", "t", " ", "m", "i", "s", "s">>)>>,
       <<Lit(<<"l", "a", "s", "t", " ", "c", "h", "a", "n", "c", "e">>)>>,
       <<Lit(<<"s", "e", "l", "l", "i", "n", "g", " ", "f", "a", "s", "t">>)>>,
       <<DigitsPlus, Lit(<<" ">>), Alt(<<<<"p", "e", "o", "p", "l", "e">>, <<"o", "t", "h", "e", "r", "s">>>>), Lit(<<" ">>),
         Opt(<<"a", "r", "e", " ">>), Alt(<<<<"v", "i", "e", "w", "i", "n", "g">>, <<"w", "a", "t", "c", "h", "i", "n", "g">>>>)>>,
       <<DigitsPlus, Lit(<<" ", "s", "o", "l", "d", " ", "i", "n", " ">>), Opt(<<"t", "h", "e", " ">>), Lit(<<"l", "a", "s", "t">>)>>,
       <<Lit(<<"f", "l", "a", "s", "h", " ", "s", "a", "l", "e">>)>>,
       <<Lit(<<"d", "e", "a", "l", " ", "o", "f", " ", "t", "h", "e", " ", "d", "a", "y">>)>>,
       <<Lit(<<"e", "x", "p", "i", "r", "e">>), Opt(<<"s">>), Lit(<<" ">>), Alt(<<<<"i", "n">>, <<"s", "o", "o", "n">>>>)>>,
       <<Lit(<<"c", "o", "u", "n", "t", "d", "o", "w", "n">>)>>,
       <<Lit(<<"t", "i", "m", "e", "r">>)>> >>

\* percent
SUSPICIOUS_DISCOUNT_THRESHOLD == 50

LaxExtremeThreshold == 70 + 10

EXTREME_DISCOUNT_THRESHOLD == 70

NoWarning == [isNull |-> TRUE, type |-> "", confidence |-> 0]

Warning(type, confidence) ==
    [isNull |-> FALSE, type |-> type, confidence |-> confidence]

\* (originalPrice - price) / originalPrice >= threshold / 100, for a
\* positive originalPrice
DiscountAtLeast(product, threshold) ==
    (product.originalPrice.v - product.price) * 100
        >= threshold * product.originalPrice.v

detectFakeDiscount(product) ==
    IF \/ ~product.originalPrice.some
       \/ product.originalPrice.v = 0
       \/ product.originalPrice.v <= product.price
    THEN NoWarning
    ELSE IF DiscountAtLeast(product, EXTREME_DISCOUNT_THRESHOLD)
    THEN Warning("fake_discount", 90)
    ELSE IF DiscountAtLeast(product, SUSPICIOUS_DISCOUNT_THRESHOLD)
    THEN Warning("fake_discount", 60)
    ELSE NoWarning

\* the inner loop of detectUrgencyManipulation: some pattern matches
MatchesAnalyzerPattern(indicator) ==
    \E p \in 1 .. Len(ANALYZER_URGENCY_PATTERNS) :
        Test(ANALYZER_URGENCY_PATTERNS[p], indicator)

UncappedConfidence(matched) == 50 + matched * 15

\* Math.min(0.9, 0.5 + matchedPatterns.length * 0.15)
UrgencyConfidence(matched) == Min(90, 50 + matched * 15)

detectUrgencyManipulation(product) ==
    LET matchedPatterns ==
            SelectSeq(product.urgencyIndicators, MatchesAnalyzerPattern)
    IN  IF Len(product.urgencyIndicators) = 0 \/ Len(matchedPatterns) = 0
        THEN NoWarning
        ELSE Warning("urgency_manipulation",
                     UrgencyConfidence(Len(matchedPatterns)))

detectInflatedPrice(product) ==
    IF \/ ~product.originalPrice.some
       \/ product.originalPrice.v = 0
       \/ Len(product.urgencyIndicators) = 0
    THEN NoWarning
    ELSE IF DiscountAtLeast(product, SUSPICIOUS_DISCOUNT_THRESHOLD)
    THEN Warning("inflated_price", 70)
    ELSE NoWarning

analyzePricing(product) ==
    SelectSeq(<<detectFakeDiscount(product),
                detectUrgencyManipulation(product),
                detectInflatedPrice(product)>>,
              LAMBDA w : ~w.isNull)

\* ------------------------------------- inputs of the pricing-analyzer calls
MaxWholePrice == 20

Only3Left == <<"O", "n", "l", "y", " ", "3", " ", "l", "e", "f", "t", "!">>

LimitedEdition == <<"L", "i", "m", "i", "t", "e", "d", " ", "e", "d", "i", "t", "i", "o", "n">>

FreeShipping == <<"F", "r", "e", "e", " ", "s", "h", "i", "p", "p", "i", "n", "g">>

\* 97 characters of description, then the urgent word
LongBlurb == [k \in 1 .. 97 |-> "."] \o <<"H", "u", "r", "r", "y">>

PricedUrgencyLists ==
    { <<>>,
      <<Only3Left>>,
      <<LimitedEdition>>,
      <<Only3Left, FreeShipping>>,
      <<Only3Left, <<"H", "u", "r", "r", "y", "!">>, <<"F", "l", "a", "s", "h", " ", "s", "a", "l", "e">>, <<"L", "a", "s", "t", " ", "c", "h", "a", "n", "c", "e">>>> }

\* ProductInfo records: whole prices, an original price that is absent, 0,
\* a whole price up to twice the largest price, or 100.
PricedProducts ==
    {[name |-> TV, price |-> 1000 * p, currency |-> USD, originalPrice |-> o,
      url |-> "shop/a", urgencyIndicators |-> u] :
        p \in 1 .. MaxWholePrice,
        o \in {NoNumber, Some(0)}
              \cup {Some(1000 * w) : w \in 1 .. 2 * MaxWholePrice}
              \cup {Some(100 * 1000)},
        u \in PricedUrgencyLists}

NoPricing == [op |-> "none", warnings |-> <<>>, percent |-> NoNumber,
              suspicious |-> FALSE]

PricingInit ==
    /\ now = 0
    /\ ticks = 0
    /\ cooldowns = <<>>
    /\ calls = [c \in Calls |-> Idle]
    /\ response = NoResponse
    /\ startArgs = <<>>
    /\ RestIdle
    /\ input \in PricedProducts
    /\ output = NoPricing

DetectFakeDiscount ==
    /\ output.op = "none"
    /\ output' = [NoPricing EXCEPT !.op = "detectFakeDiscount",
                                   !.warnings = <<detectFakeDiscount(input)>>]
    /\ UNCHANGED <<coolVars, input, restVars>>

DetectUrgencyManipulation ==
    /\ output.op = "none"
    /\ output' = [NoPricing EXCEPT !.op = "detectUrgencyManipulation",
                      !.warnings = <<detectUrgencyManipulation(input)>>]
    /\ UNCHANGED <<coolVars, input, restVars>>

AnalyzePricing ==
    /\ output.op = "none"
    /\ output' = [NoPricing EXCEPT !.op = "analyzePricing",
                                   !.warnings = analyzePricing(input)]
    /\ UNCHANGED <<coolVars, input, restVars>>

CalculateDiscountPercentage ==
    /\ output.op = "none"
    /\ output' = [NoPricing EXCEPT !.op = "calculateDiscountPercentage",
                      !.percent = calculateDiscountPercentage(
                                      input.price, input.originalPrice)]
    /\ UNCHANGED <<coolVars, input, restVars>>

IsSuspiciousDiscount ==
    /\ output.op = "none"
    /\ output' = [NoPricing EXCEPT !.op = "isSuspiciousDiscount",
                      !.suspicious = isSuspiciousDiscount(
                                         input.price, input.originalPrice)]
    /\ UNCHANGED <<coolVars, input, restVars>>

PricingNext ==
    \/ DetectFakeDiscount
    \/ DetectUrgencyManipulation
    \/ AnalyzePricing
    \/ CalculateDiscountPercentage
    \/ IsSuspiciousDiscount

SpecPricing == PricingInit /\ [][PricingNext]_vars

PricingTypeOK ==
    /\ output.op \in {"none", "detectFakeDiscount", "detectUrgencyManipulation",
                      "analyzePricing", "calculateDiscountPercentage",
                      "isSuspiciousDiscount"}
    /\ Len(output.warnings) <= 3

\* ------------------------------------------ claims on the pricing analyzer
\* C15: detectFakeDiscount gives no warning unless originalPrice is present
\* and above price; otherwise, with d = (originalPrice - price) /
\* originalPrice, a fake_discount warning of confidence 0.9 when d >= 0.70,
\* of confidence 0.6 when 0.50 <= d < 0.70, and none when d < 0.50; so a
\* product with originalPrice >= 2 x price always gets a warning.
C15_FakeDiscountBands ==
    LET w == output.warnings[1]
        p == input.price
        o == input.originalPrice.v
    IN  output.op = "detectFakeDiscount" =>
          /\ (~input.originalPrice.some \/ o <= p) => w.isNull
          /\ (input.originalPrice.some /\ o > p) =>
               /\ 10 * (o - p) >= 7 * o
                    => ~w.isNull /\ w.type = "fake_discount" /\ w.confidence = 90
               /\ (2 * (o - p) >= o /\ 10 * (o - p) < 7 * o)
                    => ~w.isNull /\ w.type = "fake_discount" /\ w.confidence = 60
               /\ 2 * (o - p) < o => w.isNull
          /\ (input.originalPrice.some /\ o >= 2 * p) => ~w.isNull

\* a product at exactly half its original price was given the 0.6 warning
C15_Witness ==
    /\ output.op = "detectFakeDiscount"
    /\ input.originalPrice.some
    /\ input.originalPrice.v = 2 * input.price
    /\ ~output.warnings[1].isNull
    /\ output.warnings[1].confidence = 60

Scenario20of100 ==
    /\ input.price = 20 * 1000
    /\ input.originalPrice = Some(100 * 1000)

\* C16 as stated: for {price: 20, originalPrice: 100}
\* calculateDiscountPercentage is 80, isSuspiciousDiscount is true and
\* detectFakeDiscount warns with confidence >= 0.9.
C16_ScenarioAsStated ==
    Scenario20of100 =>
        /\ output.op = "calculateDiscountPercentage"
               => output.percent = Some(80)
        /\ output.op = "isSuspiciousDiscount" => output.suspicious
        /\ output.op = "detectFakeDiscount"
               => ~output.warnings[1].isNull /\ output.warnings[1].confidence >= 90

\* C16 amended: for {price: 20, originalPrice: 100}
\* calculateDiscountPercentage is 80, isSuspiciousDiscount is false (80 is
\* not over 80) and detectFakeDiscount warns with confidence >= 0.9.
C16_Scenario ==
    Scenario20of100 =>
        /\ output.op = "calculateDiscountPercentage"
               => output.percent = Some(80)
        /\ output.op = "isSuspiciousDiscount" => ~output.suspicious
        /\ output.op = "detectFakeDiscount"
               => ~output.warnings[1].isNull /\ output.warnings[1].confidence >= 90

C16_Witness ==
    /\ Scenario20of100
    /\ output.op = "isSuspiciousDiscount"
    /\ ~output.suspicious

\* C18: every warning analyzePricing returns has a confidence in [0,1], and
\* a product with no originalPrice and no urgency indicators gets none.
C18_ConfidenceInRangeCleanIsEmpty ==
    output.op = "analyzePricing" =>
        /\ \A k \in 1 .. Len(output.warnings) :
               output.warnings[k].confidence \in 0 .. 100
        /\ (~input.originalPrice.some /\ Len(input.urgencyIndicators) = 0)
               => Len(output.warnings) = 0

\* all three detectors fired, the urgency one on four indicators
C18_Witness ==
    /\ output.op = "analyzePricing"
    /\ Len(input.urgencyIndicators) = 4
    /\ Len(output.warnings) = 3
    /\ output.warnings[2].confidence = 90

\* ---------------------------------------------- inputs of the extraction
NoString == Undefined(<<>>)

LongName == [k \in 1 .. 205 |-> "n"]

\* name, priceText and originalPriceText as read from a page
RawHeads ==
    { <<Some(TV), Some(<<"$", "4", "9", ".", "9", "9">>), NoString>>,
      <<Some(TV), Some(<<"$", "4", "9", ".", "9", "9">>), Some(<<"$", "5", "9", ".", "9", "9">>)>>,
      <<Some(<<" ", "L", "a", "m", "p", " ">>), Some(<<"{euro}", "1", ",", "2", "3", "4", ".", "5", "0">>), Some(<<"$", "5", "9", ".", "9", "9">>)>>,
      <<Some(LongName), Some(<<"P", "r", "i", "c", "e", ":", " ", "2", "0">>), Some(<<>>)>>,
      <<Some(<<" ", " ">>), Some(<<"$", "4", "9", ".", "9", "9">>), NoString>>,
      <<NoString, Some(<<"$", "4", "9", ".", "9", "9">>), NoString>>,
      <<Some(TV), Some(<<"f", "r", "e", "e">>), NoString>>,
      <<Some(TV), Some(<<"$", "0", ".", "0", "0">>), Some(<<"$", "5", "9", ".", "9", "9">>)>>,
      <<Some(TV), NoString, NoString>> }

UrgencyTexts == {Only3Left, LimitedEdition, FreeShipping, LongBlurb}

\* Candidate lists: every short list of the four texts, and every list up
\* to MaxTexts of an urgent and a plain text.
UrgencyTextLists ==
    SeqsUpTo(UrgencyTexts, MaxMixedTexts)
    \cup SeqsUpTo({Only3Left, FreeShipping}, MaxTexts)

RawData ==
    {[name |-> h[1], priceText |-> h[2], originalPriceText |-> h[3],
      urgencyTexts |-> u, url |-> "shop/a"] :
        h \in RawHeads,
        u \in {Undefined(<<>>)}
              \cup {Some(t) : t \in UrgencyTextLists}}

NoExtraction == [op |-> "none", isNull |-> TRUE, product |-> NoProduct.product,
                 warning |-> NoWarning]

ExtractInit ==
    /\ now = 0
    /\ ticks = 0
    /\ cooldowns = <<>>
    /\ calls = [c \in Calls |-> Idle]
    /\ response = NoResponse
    /\ startArgs = <<>>
    /\ RestIdle
    /\ input \in RawData
    /\ output = NoExtraction

ExtractProductFromData ==
    LET r == extractProductFromData(input)
    IN  /\ output.op = "none"
        /\ output' = [op |-> "extractProductFromData", isNull |-> r.isNull,
                      product |-> r.product, warning |-> NoWarning]
        /\ UNCHANGED <<coolVars, input, restVars>>

\* the extracted product reaches the analyzer
DetectUrgencyOfExtracted ==
    /\ output.op = "extractProductFromData"
    /\ ~output.isNull
    /\ output' = [output EXCEPT !.op = "detectUrgencyManipulation",
                      !.warning = detectUrgencyManipulation(output.product)]
    /\ UNCHANGED <<coolVars, input, restVars>>

ExtractNext ==
    \/ ExtractProductFromData
    \/ DetectUrgencyOfExtracted

SpecExtract == ExtractInit /\ [][ExtractNext]_vars

ExtractTypeOK ==
    /\ output.op \in {"none", "extractProductFromData", "detectUrgencyManipulation"}
    /\ output.isNull \in BOOLEAN
    /\ Len(output.product.urgencyIndicators) <= MaxTexts

\* --------------------------------------------- claims on the extraction
\* C17: for a product built by extractProductFromData with a non-empty
\* urgencyIndicators list, detectUrgencyManipulation counts every listed
\* indicator as a match (its test is the extractor's
\* containsUrgencyIndicator), returns a warning, and the confidence is
\* min(0.9, 0.5 + 0.15 x number of indicators).
C17_AnalyzerMatchesExtractor ==
    LET indicators == output.product.urgencyIndicators
    IN  (output.op = "detectUrgencyManipulation" /\ Len(indicators) > 0)
            => /\ \A k \in 1 .. Len(indicators) :
                      MatchesAnalyzerPattern(indicators[k])
               /\ ~output.warning.isNull
               /\ output.warning.type = "urgency_manipulation"
               /\ output.warning.confidence = Min(90, 50 + 15 * Len(indicators))

\* the candidate strings, [] when the field is absent
Candidates == IF input.urgencyTexts.some THEN input.urgencyTexts.v ELSE <<>>

Urgent == {i \in 1 .. Len(Candidates) : containsUrgencyIndicator(Candidates[i])}

\* the position among the candidates of the k-th one that is urgent
KthUrgent(k) ==
    CHOOSE i \in Urgent : Cardinality({j \in Urgent : j < i}) = k - 1

PricePositive ==
    /\ parsePrice(input.priceText).kind = "number"
    /\ parsePrice(input.priceText).v > 0

ExtractedAsClaimed ==
    LET indicators == output.product.urgencyIndicators
    IN  /\ ~output.isNull
        /\ validateProduct(output.product)
        /\ Len(indicators) = Min(5, Cardinality(Urgent))
        /\ \A k \in 1 .. Len(indicators) :
               LET text == Candidates[KthUrgent(k)]
               IN  /\ Len(indicators[k]) <= 100
                   /\ indicators[k] = SubSeq(text, 1, Len(indicators[k]))
                   /\ Len(indicators[k]) = 100 \/ indicators[k] = text

\* C19 as stated: with a non-empty name and a parseable positive price,
\* extractProductFromData returns a record that passes validateProduct and
\* whose urgencyIndicators are the first at most 5 candidates, in order,
\* that satisfy containsUrgencyIndicator, each cut to 100 characters; it
\* returns null otherwise.
C19_ExtractionAsStated ==
    LET named == input.name.some /\ Len(input.name.v) > 0
    IN  output.op = "extractProductFromData" =>
            IF named /\ PricePositive THEN ExtractedAsClaimed ELSE output.isNull

\* C19 amended: with a name that is non-empty once trimmed and a parseable
\* positive price, extractProductFromData returns a record that passes
\* validateProduct and whose urgencyIndicators are the first at most 5
\* candidates, in order, that satisfy containsUrgencyIndicator, each cut to
\* 100 characters; it returns null otherwise.
C19_Extraction ==
    LET named == input.name.some /\ Len(Trim(input.name.v)) > 0
    IN  output.op = "extractProductFromData" =>
            IF named /\ PricePositive THEN ExtractedAsClaimed ELSE output.isNull

\* six urgent candidates and a plain one in between: five were kept
C19_Witness ==
    /\ output.op = "extractProductFromData"
    /\ ~output.isNull
    /\ Cardinality(Urgent) = 6
    /\ Len(output.product.urgencyIndicators) = 5

\* a candidate longer than 100 characters was kept, cut to 100
C19_TruncationWitness ==
    /\ output.op = "extractProductFromData"
    /\ \E k \in 1 .. Len(output.product.urgencyIndicators) :
           /\ Len(output.product.urgencyIndicators[k]) = 100
           /\ Len(Candidates[KthUrgent(k)]) > 100

\* ------------------------------------ the opportunity-cost calculator alone
\* Prices in mills: every price up to MaxSmallPrice, whole prices, a few
\* shop prices, and prices that are not positive.
StudiedPrices ==
    (0 - 2) .. MaxSmallPrice
    \cup {1000 * p : p \in 1 .. MaxWholePrice}
    \cup {19990, 49990, 100000, 499990, 0 - 5000}

CostInit ==
    /\ now = 0
    /\ ticks = 0
    /\ cooldowns = <<>>
    /\ calls = [c \in Calls |-> Idle]
    /\ response = NoResponse
    /\ startArgs = <<>>
    /\ RestIdle
    /\ input \in [price : StudiedPrices,
                  currency : {Some(USD), Undefined(<<>>)}]
    /\ output = [op |-> "none", threw |-> FALSE, value |-> ZeroCost]

CalculateOpportunityCost ==
    LET r == calculateOpportunityCost(input.price, input.currency)
    IN  /\ output.op = "none"
        /\ output' = [op |-> "calculateOpportunityCost", threw |-> r.threw,
                      value |-> r.value]
        /\ UNCHANGED <<coolVars, input, restVars>>

CostNext == CalculateOpportunityCost

SpecCost == CostInit /\ [][CostNext]_vars

CostTypeOK ==
    /\ output.op \in {"none", "calculateOpportunityCost"}
    /\ ~output.threw
    /\ output.value.amount >= 0

Increasing ==
    /\ output.value.years5 < output.value.years10
    /\ output.value.years10 < output.value.years20

\* C20 as stated: for every positive price the projections
\* calculateOpportunityCost returns (P x 1.07^n rounded to 2 decimals) are
\* strictly increasing, years5 < years10 < years20.
C20_IncreasingForPositive ==
    (output.op = "calculateOpportunityCost" /\ input.price > 0) => Increasing

\* C20 amended: for every price of a whole number of cents from 0.01, and
\* every price from 0.013, the projections are strictly increasing.
C20_IncreasingFromOneCent ==
    (/\ output.op = "calculateOpportunityCost"
     /\ input.price > 0
     /\ input.price % 10 = 0 \/ input.price >= 13)
        => Increasing

\* the projections of 0.01 are 0.01, 0.02 and 0.04
C20_Witness ==
    /\ output.op = "calculateOpportunityCost"
    /\ input.price = 10
    /\ output.value.years5 = 1
    /\ output.value.years10 = 2
    /\ output.value.years20 = 4

\* ====================================================================
\* The intervention evaluation (lib/evaluations.ts).  Scores are in
\* hundredths; the product price is in mills and the 20-year projection in
\* cents, as above.
\* ====================================================================

\* message.includes(word), on the lower-cased message
Includes(text, word) == Test(<<Lit(word)>>, text)

\* EmpathyMetric.score
EmpathyScore(in) ==
    LET message == in.personalizedMessage
        Bonus(a, b) == IF Includes(message, a) \/ Includes(message, b)
                       THEN 10 ELSE 0
        score == 50 + Bonus(<<"u", "n", "d", "e", "r", "s", "t", "a", "n", "d">>, <<"k", "n", "o", "w">>)
                    + Bonus(<<"g", "o", "a", "l">>, <<"d", "r", "e", "a", "m">>)
                    + Bonus(<<"h", "e", "l", "p">>, <<"s", "u", "p", "p", "o", "r", "t">>)
                    + Bonus(<<"c", "o", "n", "s", "i", "d", "e", "r">>, <<"t", "h", "i", "n", "k">>)
                    - Bonus(<<"m", "u", "s", "t">>, <<"s", "h", "o", "u", "l", "d", " ", "n", "o", "t">>)
                    - Bonus(<<"w", "r", "o", "n", "g">>, <<"b", "a", "d">>)
    IN  Max(0, Min(100, score))

essentialCategories ==
    <<<<"f", "o", "o", "d">>, <<"m", "e", "d", "i", "c", "i", "n", "e">>, <<"h", "e", "a", "l", "t", "h">>, <<"u", "t", "i", "l", "i", "t", "i", "e", "s">>, <<"h", "o", "u", "s", "i", "n", "g">>>>

nonEssentialCategories ==
    <<<<"l", "u", "x", "u", "r", "y">>, <<"e", "n", "t", "e", "r", "t", "a", "i", "n", "m", "e", "n", "t">>, <<"f", "a", "s", "h", "i", "o", "n">>, <<"g", "a", "d", "g", "e", "t", "s">>>>

\* costError > 0.01, where expectedCost = productPrice * 1.07^20 and
\* costError = |opportunityCost20yr - expectedCost| / expectedCost.  The
\* expected cost is formed in 1/10000 of a cent.  A zero expected cost
\* makes the quotient Infinity (or NaN, when the projection is zero too), a
\* negative one makes it negative.
CostErrorTooLarge(productPrice, opportunityCost20yr) ==
    LET g == Pow107(20)
        c3 == (productPrice * g[4]) \div 1000
        c2 == (productPrice * g[3] + c3) \div 1000
        c1 == (productPrice * g[2] + c2) \div 1000
        expectedCost == productPrice * g[1] + c1
        given == opportunityCost20yr * 10000
        diff == IF given >= expectedCost THEN given - expectedCost
                ELSE expectedCost - given
    IN  CASE expectedCost > 0 -> diff > expectedCost \div 100
          [] expectedCost = 0 -> opportunityCost20yr # 0
          [] OTHER -> FALSE

\* Math.max(0, score)
AccuracyFloor(score) == Max(0, score)

\* AccuracyMetric.score
AccuracyScore(in) ==
    LET SomeIncluded(cats) ==
            \E k \in 1 .. Len(cats) : Includes(in.category.v, cats[k])
        isEssentialCategory == SomeIncluded(essentialCategories)
        isNonEssentialCategory == SomeIncluded(nonEssentialCategories)
        hasCategory == in.category.some /\ in.category.v # <<>>
        score == 100
            - (IF CostErrorTooLarge(in.productPrice, in.opportunityCost20yr)
               THEN 30 ELSE 0)
            - (IF hasCategory /\ isEssentialCategory /\ ~in.isEssential
               THEN 20 ELSE 0)
            - (IF hasCategory /\ isNonEssentialCategory /\ in.isEssential
               THEN 20 ELSE 0)
    IN  AccuracyFloor(score)

\* ActionabilityMetric.score
ActionabilityScore(in) ==
    LET score == 50
            + (IF in.suggestedAction \in {"proceed", "cooldown", "skip"}
               THEN 20 ELSE 0)
            + (IF in.reasoning # <<>> /\ Len(in.reasoning) > 20
               THEN 20 ELSE 0)
            + (IF in.warningCount > 0 /\ in.suggestedAction # "proceed"
               THEN 10 ELSE 0)
    IN  Min(100, score)

\* the outcome of relevanceMetric.score: a value, or a rejection
JudgeFailed == [failed |-> TRUE, value |-> 0]

JudgeReturned(v) == [failed |-> FALSE, value |-> v]

DefaultRelevance == 70

\* let relevanceScore = 0.7; try { relevanceScore = result.value } catch {}
RelevanceScore(judge) == IF judge.failed THEN DefaultRelevance ELSE judge.value

\* userProfile?.financialGoals?.join(', ') || 'Not specified'
UserGoals(userProfile) ==
    IF userProfile.some /\ userProfile.v # <<>> THEN userProfile.v
    ELSE <<"Not specified">>

evaluateIntervention(product, analysis, userProfile, judge) ==
    [empathyScore |->
        EmpathyScore([userGoals |-> UserGoals(userProfile),
                      productName |-> product.name,
                      price |-> product.price,
                      personalizedMessage |->
                          [k \in 1 .. Len(analysis.personalizedMessage) |->
                              ToLower(analysis.personalizedMessage[k])]]),
     accuracyScore |->
        AccuracyScore([productPrice |-> product.price,
                       opportunityCost20yr |-> analysis.years20,
                       isEssential |-> analysis.isEssential,
                       category |-> product.category]),
     relevanceScore |-> RelevanceScore(judge),
     actionabilityScore |->
        ActionabilityScore([suggestedAction |-> analysis.suggestedAction,
                            reasoning |-> analysis.reasoning,
                            warningCount |-> analysis.warningCount])]

\* --------------------------------------------- the evaluated interventions
EvaluatedMessages ==
    {<<"x">>,
     <<"I", " ", "u", "n", "d", "e", "r", "s", "t", "a", "n", "d", " ", "y", "o", "u", "r", " ", "g", "o", "a", "l", ".", " ", "T", "h", "i", "n", "k", ",", " ", "I", " ", "c", "a", "n", " ", "h", "e", "l", "p">>,
     <<"Y", "o", "u", " ", "m", "u", "s", "t", " ", "n", "o", "t", ".", " ", "B", "a", "d", " ", "i", "d", "e", "a">>,
     <<"I", " ", "k", "n", "o", "w", " ", "y", "o", "u", " ", "m", "u", "s", "t">>}

EvaluatedCategories ==
    {Undefined(<<>>), Some(<<"f", "o", "o", "d">>), Some(<<"L", "u", "x", "u", "r", "y">>),
     Some(<<"e", "l", "e", "c", "t", "r", "o", "n", "i", "c", "s">>), Some(<<"h", "e", "a", "l", "t", "h", " ", "g", "a", "d", "g", "e", "t", "s">>)}

\* a price and the 20-year projection reported for it: the right one, one
\* within 1%, one far off, and degenerate prices
EvaluatedCosts ==
    {<<1000, 387>>, <<1000, 390>>, <<1000, 100>>, <<19990, 7735>>,
     <<0, 0>>, <<0, 5>>, <<-5000, 100>>}

EvaluatedReasonings == {<<"o", "k">>, <<"T", "h", "i", "s", " ", "p", "u", "r", "c", "h", "a", "s", "e", " ", "c", "a", "n", " ", "w", "a", "i", "t", " ", "a", " ", "m", "o", "n", "t", "h">>}

EvaluatedProfiles == {Undefined(<<>>), Some(<<>>), Some(<<"Save more">>)}

JudgeOutcomes ==
    {JudgeFailed} \cup {JudgeReturned(v) : v \in {-50, 0, 85, 100, 150}}

NoEvaluation ==
    [op |-> "none",
     value |-> [empathyScore |-> 0, accuracyScore |-> 0,
                relevanceScore |-> 0, actionabilityScore |-> 0]]

EvaluateInit ==
    /\ now = 0
    /\ ticks = 0
    /\ cooldowns = <<>>
    /\ calls = [c \in Calls |-> Idle]
    /\ response = NoResponse
    /\ startArgs = <<>>
    /\ RestIdle
    /\ \E cost \in EvaluatedCosts :
          input \in [product : [name : {<<"T", "V">>}, price : {cost[1]},
                                category : EvaluatedCategories],
                     analysis : [personalizedMessage : EvaluatedMessages,
                                 years20 : {cost[2]},
                                 isEssential : BOOLEAN,
                                 suggestedAction :
                                     {"proceed", "cooldown", "skip"},
                                 reasoning : EvaluatedReasonings,
                                 warningCount : {0, 2}],
                     userProfile : EvaluatedProfiles,
                     judge : JudgeOutcomes]
    /\ output = NoEvaluation

EvaluateIntervention ==
    /\ output.op = "none"
    /\ output' = [op |-> "evaluateIntervention",
                  value |-> evaluateIntervention(input.product,
                                input.analysis, input.userProfile,
                                input.judge)]
    /\ UNCHANGED <<coolVars, input, restVars>>

EvaluateNext == EvaluateIntervention

SpecEvaluate == EvaluateInit /\ [][EvaluateNext]_vars

InUnitInterval(score) == 0 <= score /\ score <= 100

\* C21 as stated: evaluateIntervention returns empathy, accuracy,
\* actionability and relevance scores that each lie in [0,1], whatever the
\* relevance judge returns (or 0.7 when it fails).
C21_AllScoresInUnitInterval ==
    output.op = "evaluateIntervention" =>
        /\ InUnitInterval(output.value.empathyScore)
        /\ InUnitInterval(output.value.accuracyScore)
        /\ InUnitInterval(output.value.actionabilityScore)
        /\ InUnitInterval(output.value.relevanceScore)
        /\ input.judge.failed => output.value.relevanceScore = 70

\* the three scores the code computes itself are in [0,1], and so is the
\* relevance score whenever the judge fails or answers within [0,1]
C21_OwnScoresInUnitInterval ==
    output.op = "evaluateIntervention" =>
        /\ InUnitInterval(output.value.empathyScore)
        /\ InUnitInterval(output.value.accuracyScore)
        /\ InUnitInterval(output.value.actionabilityScore)
        /\ (input.judge.failed \/ InUnitInterval(input.judge.value))
               => InUnitInterval(output.value.relevanceScore)
        /\ input.judge.failed => output.value.relevanceScore = 70

\* ====================================================================
\* Further properties of the cool-down lifecycle (specification Spec).
\* ====================================================================

\* formatRemainingTime: 'Expired', or the hours and minutes it prints
formatRemainingTime(coolDown, t) ==
    LET remaining == getRemainingTime(coolDown, t)
    IN  IF remaining <= 0 THEN [text |-> "Expired", hours |-> 0, minutes |-> 0]
        ELSE [text |-> "remaining",
              hours |-> remaining \div HourMs,
              minutes |-> (remaining % HourMs) \div (1000 * 60)]

\* C24: start never looks for an existing cool-down: every start whose
\* insert the store accepts adds one more active record for its (user, url)
\* and leaves every existing record as it was, so two starts for the same
\* pair leave two active records (the table has no uniqueness constraint).
C24_StartNeverChecks ==
    [][(response'.op = "start" /\ ~response'.threw) =>
           /\ Len(cooldowns') = Len(cooldowns) + 1
           /\ \A i \in Ids(cooldowns) : cooldowns'[i] = cooldowns[i]
           /\ LET new == cooldowns'[Len(cooldowns')]
              IN  /\ new.status = "active"
                  /\ new.user_id = response'.userId
                  /\ new.product_url = response'.productUrl]_vars

\* The second start for a pair has just succeeded and the pair has two
\* active records.
C24_Witness ==
    /\ response.op = "start"
    /\ ~response.threw
    /\ response.id = 2
    /\ Cardinality(ActiveOfPair(cooldowns, response.userId,
                                response.productUrl)) = 2

\* C30: every cool-down that GET /api/cooldown returns with status active
\* (from check or getActive) has remainingTime > 0 and a formattedTime other
\* than 'Expired'.  The route reads the clock when the manager has returned.
C30_ActiveHasTimeLeft ==
    response.op \in {"check", "getActive"} =>
        \A cd \in Returned :
            cd.status = "active" =>
                /\ getRemainingTime(cd, now) > 0
                /\ formatRemainingTime(cd, now).text # "Expired"

\* ====================================================================
\* The content script's extraction (extension/content.js) next to the
\* server-side extractor.  parsePrice is the same text in both files.
\* ====================================================================

\* parseCurrency of content.js
contentParseCurrency(textArg) ==
    LET has(c) == textArg.some /\ c \in Range(textArg.v)
    IN  CASE has("$")       -> USD
          [] has("{euro}")  -> <<"E", "U", "R">>
          [] has("{pound}") -> <<"G", "B", "P">>
          [] OTHER          -> USD

\* urgencyPatterns of extractUrgencyIndicators
urgencyPatterns ==
    << <<Lit(<<"o", "n", "l", "y", " ">>), DigitsPlus, Lit(<<" ", "l", "e", "f", "t">>)>>,
       <<Lit(<<"l", "i", "m", "i", "t", "e", "d">>)>>,
       <<Lit(<<"s", "a", "l", "e", " ", "e", "n", "d", "s">>)>>,
       <<Lit(<<"h", "u", "r", "r", "y">>)>>,
       <<Lit(<<"l", "a", "s", "t", " ", "c", "h", "a", "n", "c", "e">>)>>,
       <<Lit(<<"s", "e", "l", "l", "i", "n", "g", " ", "f", "a", "s", "t">>)>>,
       <<DigitsPlus, Lit(<<" ">>), Alt(<<<<"p", "e", "o", "p", "l", "e">>, <<"o", "t", "h", "e", "r", "s">>>>)>>,
       <<Lit(<<"f", "l", "a", "s", "h", " ", "s", "a", "l", "e">>)>> >>

RECURSIVE Distinct(_)
\* [...new Set(indicators)]: the first occurrence of every value, in order
Distinct(s) ==
    IF Len(s) = 0 THEN <<>>
    ELSE LET front == Distinct(SubSeq(s, 1, Len(s) - 1))
         IN  IF s[Len(s)] \in Range(front) THEN front
             ELSE Append(front, s[Len(s)])

\* extractUrgencyIndicators, given the textContent of the selected elements
extractUrgencyIndicators(elements) ==
    LET texts == [k \in 1 .. Len(elements) |-> Trim(elements[k])]
        Matches(text) ==
            /\ Len(text) > 0
            /\ \E p \in 1 .. Len(urgencyPatterns) :
                   Test(urgencyPatterns[p], text)
        kept == SelectSeq(texts, Matches)
        indicators == [k \in 1 .. Len(kept) |-> Substring0(kept[k], 100)]
        unique == Distinct(indicators)
    IN  SubSeq(unique, 1, Min(5, Len(unique)))

\* extractProductInfo, given what extractText and querySelectorAll return
extractProductInfo(page) ==
    LET name          == page.name
        priceText     == page.priceText
        price         == parsePrice(priceText)
        originalPrice == parsePrice(page.originalPriceText)
        currency      == contentParseCurrency(priceText)
    IN  IF ~name.some \/ Len(name.v) = 0
           \/ ~priceText.some \/ Len(priceText.v) = 0
           \/ Falsy(price)
        THEN NoProduct
        ELSE [isNull |-> FALSE,
              product |->
                  [name |-> Substring0(name.v, 200),
                   price |-> price.v,
                   currency |-> currency,
                   originalPrice |->
                       IF ~Falsy(originalPrice) /\ originalPrice.v > price.v
                       THEN Some(originalPrice.v) ELSE NoNumber,
                   url |-> page.url,
                   urgencyIndicators |->
                       extractUrgencyIndicators(
                           IF page.urgencyTexts.some
                           THEN page.urgencyTexts.v ELSE <<>>)]]

\* ------------------------------------------------------ the pages read
EndsInTwoHours == <<"E", "n", "d", "s", " ", "i", "n", " ", "2", " ", "h", "o", "u", "r", "s">>

\* name, price text and original-price text as extractText returns them:
\* trimmed and not empty, or null
PageHeads ==
    { <<Some(TV), Some(<<"$", "4", "9", ".", "9", "9">>), NoString>>,
      <<Some(TV), Some(<<"$", "4", "9", ".", "9", "9">>), Some(<<"$", "5", "9", ".", "9", "9">>)>>,
      <<Some(TV), Some(<<"{euro}", "1", ",", "2", "3", "4", ".", "5", "0">>), NoString>>,
      <<Some(TV), Some(<<"{yen}", "1", "0", "0", "0">>), NoString>>,
      <<Some(LongName), Some(<<"P", "r", "i", "c", "e", ":", " ", "2", "0">>), NoString>>,
      <<Some(TV), Some(<<"f", "r", "e", "e">>), NoString>>,
      <<Some(TV), NoString, NoString>>,
      <<NoString, Some(<<"$", "4", "9", ".", "9", "9">>), NoString>> }

PageUrgencyTexts == {Only3Left, EndsInTwoHours, FreeShipping}

Pages ==
    {[name |-> h[1], priceText |-> h[2], originalPriceText |-> h[3],
      urgencyTexts |-> Some(u), url |-> "shop/a"] :
        h \in PageHeads, u \in SeqsUpTo(PageUrgencyTexts, MaxMixedTexts)}

NotExtracted == [done |-> FALSE, isNull |-> TRUE, product |-> NoProduct.product]

MirrorInit ==
    /\ now = 0
    /\ ticks = 0
    /\ cooldowns = <<>>
    /\ calls = [c \in Calls |-> Idle]
    /\ response = NoResponse
    /\ startArgs = <<>>
    /\ RestIdle
    /\ input \in Pages
    /\ output = [server |-> NotExtracted, content |-> NotExtracted]

\* the content script extracts the product from the page
ExtractProductInfo ==
    LET r == extractProductInfo(input)
    IN  /\ ~output.content.done
        /\ output' = [output EXCEPT !.content =
               [done |-> TRUE, isNull |-> r.isNull, product |-> r.product]]
        /\ UNCHANGED <<coolVars, input, restVars>>

\* the server-side extractor is given the same texts
ExtractSameData ==
    LET r == extractProductFromData(input)
    IN  /\ ~output.server.done
        /\ output' = [output EXCEPT !.server =
               [done |-> TRUE, isNull |-> r.isNull, product |-> r.product]]
        /\ UNCHANGED <<coolVars, input, restVars>>

MirrorNext ==
    \/ ExtractProductInfo
    \/ ExtractSameData

SpecMirror == MirrorInit /\ [][MirrorNext]_vars

\* C26: for the same name, price text, original-price text and urgency
\* texts, extractProductFromData and extractProductInfo either both produce
\* no product or produce the same record.
C26_ExtractorsAgree ==
    (output.server.done /\ output.content.done) =>
        /\ output.server.isNull = output.content.isNull
        /\ output.server.product = output.content.product

\* what the two do share: they produce a product for the same pages, with
\* the same name, price and original price
C26_SameNamePrice ==
    (output.server.done /\ output.content.done) =>
        /\ output.server.isNull = output.content.isNull
        /\ output.server.product.name = output.content.product.name
        /\ output.server.product.price = output.content.product.price
        /\ output.server.product.originalPrice
               = output.content.product.originalPrice

\* ====================================================================
\* User profiles (lib/user-profile.ts over the user_profiles table).
\*
\* Every supabase request is one atomic statement.  getOrCreate issues two
\* (the select of get, then the insert of create) with an await between
\* them, so other requests interleave there.  `response` holds the outcome
\* of the operation completed in this step, the returned profile in `rows`,
\* and `input` the arguments of an update completed in this step.
\* ====================================================================

\* --------------------------------------------------------------- bounds
MaxRequests == 2
MaxProfileTicks == 1

\* a nullable column or an optional field without a value
Null == Undefined(0)

\* INSERT with the column defaults of the schema
NewProfileRow(dbProfile, t) ==
    [ id                 |-> dbProfile.id.v,
      savings_goal       |-> IF dbProfile.savings_goal.some
                             THEN dbProfile.savings_goal ELSE Null,
      monthly_budget     |-> IF dbProfile.monthly_budget.some
                             THEN dbProfile.monthly_budget ELSE Null,
      financial_goals    |-> IF dbProfile.financial_goals.some
                             THEN dbProfile.financial_goals.v ELSE <<>>,
      spending_threshold |-> IF dbProfile.spending_threshold.some
                             THEN dbProfile.spending_threshold.v ELSE 20,
      cooldown_enabled   |-> IF dbProfile.cooldown_enabled.some
                             THEN dbProfile.cooldown_enabled.v ELSE TRUE,
      created_at         |-> toISOString(t),
      updated_at         |-> toISOString(t) ]

\* dbToUserProfile
dbToUserProfile(db) ==
    [ id                |-> db.id,
      savingsGoal       |-> db.savings_goal,
      monthlyBudget     |-> db.monthly_budget,
      financialGoals    |-> db.financial_goals,
      spendingThreshold |-> db.spending_threshold,
      coolDownEnabled   |-> db.cooldown_enabled,
      createdAt         |-> NewDate(db.created_at),
      updatedAt         |-> NewDate(db.updated_at) ]

\* a Partial<UserProfile> with no field
NoFieldsGiven ==
    [ id                |-> Undefined(""),
      savingsGoal       |-> Null,
      monthlyBudget     |-> Null,
      financialGoals    |-> Undefined(<<>>),
      spendingThreshold |-> Null,
      coolDownEnabled   |-> Undefined(FALSE) ]

\* userProfileToDb: the five settable fields that are not undefined
userProfileToDb(profile) ==
    [ id                 |-> Undefined(""),
      savings_goal       |-> profile.savingsGoal,
      monthly_budget     |-> profile.monthlyBudget,
      financial_goals    |-> profile.financialGoals,
      spending_threshold |-> profile.spendingThreshold,
      cooldown_enabled   |-> profile.coolDownEnabled ]

DbColumns ==
    {"savings_goal", "monthly_budget", "financial_goals",
     "spending_threshold", "cooldown_enabled"}

GivenColumns(db) == {c \in DbColumns : db[c].some}

ProfileIds(ps) == {ps[k].id : k \in 1 .. Len(ps)}

\* select('*').eq('id', userId)
ProfilesOfId(ps, userId) == {k \in 1 .. Len(ps) : ps[k].id = userId}

\* insert(dbProfile): id is the primary key, without a default
InsertProfile(ps, dbProfile, t) ==
    IF ~dbProfile.id.some \/ dbProfile.id.v \in ProfileIds(ps)
    THEN [error |-> TRUE, table |-> ps]
    ELSE [error |-> FALSE, table |-> Append(ps, NewProfileRow(dbProfile, t))]

\* the columns an UPDATE ... SET writes; the rest of the row is carried over
SetColumns(row, db) ==
    [ id                 |-> row.id,
      savings_goal       |-> IF db.savings_goal.some
                             THEN db.savings_goal ELSE row.savings_goal,
      monthly_budget     |-> IF db.monthly_budget.some
                             THEN db.monthly_budget ELSE row.monthly_budget,
      financial_goals    |-> IF db.financial_goals.some
                             THEN db.financial_goals.v ELSE row.financial_goals,
      spending_threshold |-> IF db.spending_threshold.some
                             THEN db.spending_threshold.v
                             ELSE row.spending_threshold,
      cooldown_enabled   |-> IF db.cooldown_enabled.some
                             THEN db.cooldown_enabled.v
                             ELSE row.cooldown_enabled,
      created_at         |-> row.created_at,
      updated_at         |-> row.updated_at ]

UpdateWithoutTrigger(ps, userId, db, t) ==
    [k \in 1 .. Len(ps) |->
        IF ps[k].id = userId THEN SetColumns(ps[k], db) ELSE ps[k]]

\* update(dbUpdates).eq('id', userId), with the update_updated_at_column
\* trigger of the schema: NEW.updated_at = NOW() on every updated row
UpdateProfiles(ps, userId, db, t) ==
    [k \in 1 .. Len(ps) |->
        IF ps[k].id = userId
        THEN [SetColumns(ps[k], db) EXCEPT !.updated_at = toISOString(t)]
        ELSE ps[k]]

\* ---------------------------------------------------------------- inputs
\* the updates callers pass: one field, several fields, an id (which update
\* ignores), nothing
UpdateInputs ==
    { [NoFieldsGiven EXCEPT !.savingsGoal = Some(5000)],
      [NoFieldsGiven EXCEPT !.spendingThreshold = Some(50),
                            !.coolDownEnabled = Some(FALSE)],
      [NoFieldsGiven EXCEPT !.id = Some("u2")],
      NoFieldsGiven }

ProfileInit ==
    /\ now = 0
    /\ ticks = 0
    /\ cooldowns = <<>>
    /\ calls = [c \in Calls |-> Idle]
    /\ response = NoResponse
    /\ startArgs = <<>>
    /\ input = Nothing
    /\ output = Nothing
    /\ RestIdle

profileRest == <<cooldowns, calls, startArgs, output,
                 storage, handlers, shown, uuids>>

ProfileResponse(op, userId, db) ==
    [NoResponse EXCEPT !.op = op, !.userId = userId, !.began = now,
                       !.rows = <<dbToUserProfile(db)>>]

\* The clock advances between two profile operations.
ProfileTick ==
    /\ ticks < MaxProfileTicks
    /\ now' = now + HourMs
    /\ ticks' = ticks + 1
    /\ response' = NoResponse
    /\ input' = Nothing
    /\ UNCHANGED <<profiles, requests, profileRest>>

\* UserProfileManager.update.  An update that names no column reaches no
\* row in some versions of the store and the row (and its trigger) in
\* others; .single() then fails or succeeds accordingly.
Update ==
    \E userId \in Users, updates \in UpdateInputs, ok \in BOOLEAN,
       touches \in BOOLEAN :
        LET dbUpdates == userProfileToDb(updates)
            rows      == ProfilesOfId(profiles, userId)
            applied   == /\ ok
                         /\ rows # {}
                         /\ GivenColumns(dbUpdates) # {} \/ touches
            table     == UpdateProfiles(profiles, userId, dbUpdates, now)
        IN  /\ profiles' = IF applied THEN table ELSE profiles
            /\ response' =
                   IF applied
                   THEN ProfileResponse("update", userId,
                            table[CHOOSE k \in rows : TRUE])
                   ELSE [Threw("update") EXCEPT !.userId = userId,
                                                !.failed = ~ok]
            /\ input' = [userId |-> userId, updates |-> updates]
            /\ UNCHANGED <<now, ticks, requests, profileRest>>

\* UserProfileManager.getOrCreate(userId), up to the return of get: the
\* profile if the select gave one, otherwise (no row, or an error) on to
\* create
BeginGetOrCreate ==
    \E userId \in Users, ok \in BOOLEAN :
        LET rows == ProfilesOfId(profiles, userId)
        IN  /\ Len(requests) < MaxRequests
            /\ IF ok /\ rows # {}
               THEN /\ response' = ProfileResponse("getOrCreate", userId,
                                       profiles[CHOOSE k \in rows : TRUE])
                    /\ UNCHANGED requests
               ELSE /\ response' = NoResponse
                    /\ requests' = Append(requests,
                           [op |-> "getOrCreate", userId |-> userId,
                            getFailed |-> ~ok])
            /\ input' = Nothing
            /\ UNCHANGED <<now, ticks, profiles, profileRest>>

\* getOrCreate, second half: this.create({ id: userId })
FinishGetOrCreate ==
    \E r \in 1 .. Len(requests), ok \in BOOLEAN :
        LET req       == requests[r]
            dbProfile == [userProfileToDb(NoFieldsGiven)
                             EXCEPT !.id = Some(req.userId)]
            res       == IF ok THEN InsertProfile(profiles, dbProfile, now)
                         ELSE [error |-> TRUE, table |-> profiles]
        IN  /\ profiles' = res.table
            /\ response' =
                   IF res.error
                   THEN [Threw("getOrCreate") EXCEPT
                            !.userId = req.userId,
                            !.failed = req.getFailed \/ ~ok]
                   ELSE [ProfileResponse("getOrCreate", req.userId,
                             res.table[Len(res.table)])
                            EXCEPT !.failed = req.getFailed]
            /\ requests' = SubSeq(requests, 1, r - 1)
                           \o SubSeq(requests, r + 1, Len(requests))
            /\ input' = Nothing
            /\ UNCHANGED <<now, ticks, profileRest>>

ProfileNext ==
    \/ ProfileTick
    \/ Update
    \/ BeginGetOrCreate
    \/ FinishGetOrCreate

SpecProfile == ProfileInit /\ [][ProfileNext]_vars

ProfileTypeOK ==
    /\ Len(requests) <= MaxRequests
    /\ \A k \in 1 .. Len(profiles) : profiles[k].id \in Users
    /\ \A j, k \in 1 .. Len(profiles) : profiles[j].id = profiles[k].id => j = k

\* ------------------------------------------------ claims on the profiles
\* the UserProfile field each settable column is written from
FieldOf ==
    [savings_goal |-> "savingsGoal", monthly_budget |-> "monthlyBudget",
     financial_goals |-> "financialGoals",
     spending_threshold |-> "spendingThreshold",
     cooldown_enabled |-> "coolDownEnabled"]

\* the value a column holds for a field value
ColumnValue(c, given) ==
    IF c \in {"savings_goal", "monthly_budget"} THEN given ELSE given.v

\* the settable columns of the updated row are merged: a column whose field
\* is present takes the given value, every other one keeps its own
Merged(old, new, updates) ==
    /\ new.id = old.id
    /\ new.created_at = old.created_at
    /\ \A c \in DbColumns :
           new[c] = IF updates[FieldOf[c]].some
                    THEN ColumnValue(c, updates[FieldOf[c]])
                    ELSE old[c]

UpdateCompleted == response'.op = "update" /\ ~response'.threw

NothingDeleted ==
    /\ Len(profiles') >= Len(profiles)
    /\ \A k \in 1 .. Len(profiles) : profiles'[k].id = profiles[k].id

\* C22 as stated: update(userId, updates) changes only the fields present
\* in updates on the profile with that id; every other field of that
\* profile and every other profile are unchanged; no operation deletes a
\* profile.
C22_MergeLeavesRestUnchanged ==
    [][/\ NothingDeleted
       /\ UpdateCompleted =>
              \A k \in 1 .. Len(profiles) :
                  IF profiles[k].id = input'.userId
                  THEN /\ Merged(profiles[k], profiles'[k], input'.updates)
                       /\ profiles'[k].updated_at = profiles[k].updated_at
                  ELSE profiles'[k] = profiles[k]]_vars

\* C22 as amended: the same, except that the store stamps the updated
\* profile's updatedAt with the time of the update.
C22_MergeStampsUpdatedAt ==
    [][/\ NothingDeleted
       /\ UpdateCompleted =>
              \A k \in 1 .. Len(profiles) :
                  IF profiles[k].id = input'.userId
                  THEN /\ Merged(profiles[k], profiles'[k], input'.updates)
                       /\ profiles'[k].updated_at = toISOString(now)
                  ELSE profiles'[k] = profiles[k]]_vars

\* An update of one field has completed an hour after the profile was
\* created, next to another user's profile.
C22_Witness ==
    /\ response.op = "update"
    /\ ~response.threw
    /\ Len(profiles) = 2
    /\ \E k \in 1 .. Len(profiles) :
           /\ profiles[k].id = input.userId
           /\ input.updates.savingsGoal.some
           /\ profiles[k].savings_goal = input.updates.savingsGoal
           /\ profiles[k].spending_threshold = 20
           /\ profiles[k].updated_at # profiles[k].created_at

\* C27: every getOrCreate(userId) whose store requests are answered
\* resolves to the profile whose id is userId, and exactly one profile with
\* that id exists afterwards, under any interleaving of concurrent calls.
C27_EveryCallResolves ==
    (response.op = "getOrCreate" /\ ~response.failed) =>
        /\ ~response.threw
        /\ Len(response.rows) = 1
        /\ response.rows[1].id = response.userId
        /\ Cardinality(ProfilesOfId(profiles, response.userId)) = 1

\* what does hold: a call that resolves gives the profile of that id, and
\* never more than one profile has that id
C27_ResolvedIsTheProfile ==
    /\ \A j, k \in 1 .. Len(profiles) : profiles[j].id = profiles[k].id => j = k
    /\ (response.op = "getOrCreate" /\ ~response.threw) =>
           /\ response.rows[1].id = response.userId
           /\ Cardinality(ProfilesOfId(profiles, response.userId)) = 1

\* ====================================================================
\* The browser extension (extension/background.js, content.js, popup.js)
\* against the API routes.
\*
\* An async function of the extension is a handler: it runs from one await
\* to the next in one step, and the steps of different handlers interleave.
\* A request to the API is answered in one step (the interleavings inside
\* the server are those of the specifications above).
\* ====================================================================

\* --------------------------------------------------------------- bounds
MaxHandlers == 2
MaxDays == 1

\* crypto.randomUUID(): a new identifier at every call
UuidNames == <<"uuid-1", "uuid-2", "uuid-3", "uuid-4">>

Uuid(n) == UuidNames[n]

\* the product page the content script runs on, with the analysis shown
PageProducts == {ProductA}

Handler(fn, pc, userId, url, id) ==
    [fn |-> fn, pc |-> pc, userId |-> userId, url |-> url, id |-> id]

Remove(s, k) == SubSeq(s, 1, k - 1) \o SubSeq(s, k + 1, Len(s))

\* something put in front of the user: the panel's confirmation, a toast or
\* the cool-down list of the popup, a desktop notification
Confirmation(url) ==
    [kind |-> "Cool-Down Started!", url |-> url, id |-> 0, ids |-> {}]

Toast(text, id) == [kind |-> text, url |-> "", id |-> id, ids |-> {}]

Notification(id) ==
    [kind |-> "Cool-Down Expired", url |-> "", id |-> id, ids |-> {}]

\* the list rendered by loadCooldowns, and the cancel it followed (0: none)
CooldownList(ids, after) ==
    [kind |-> "cooldowns-list", url |-> "", id |-> after, ids |-> ids]

\* ------------------------------------------------------------ API routes
\* the row CoolDownManager.start inserts
StartRow(userId, product, analysis, t) ==
    [ id              |-> 0,
      user_id         |-> userId,
      product_url     |-> product.url,
      product_info    |-> product,
      analysis_result |-> analysis,
      started_at      |-> toISOString(t),
      expires_at      |-> toISOString(t + COOLDOWN_DURATION_MS),
      status          |-> "active" ]

\* userProfileManager.getOrCreate(userId) of POST /api/cooldown
EnsureProfile(ps, userId, t) ==
    IF userId \in ProfileIds(ps) THEN ps
    ELSE InsertProfile(ps, [userProfileToDb(NoFieldsGiven)
                               EXCEPT !.id = Some(userId)], t).table

\* GET /api/cooldown?userId=..: getActive, whose sweep is applied or not
GetActiveRoute(cds, userId, swept, t) ==
    LET table == IF swept THEN ExpireRows(cds, toISOString(t)) ELSE cds
    IN  [table |-> table,
         coolDowns |-> MapDbToCoolDown(OrderByExpiresAt(
                           table, ActiveOfUser(table, userId), TRUE))]

NoQuery == [userId |-> Undefined(""), id |-> Undefined(0),
            cooldownId |-> Undefined(0)]

\* DELETE /api/cooldown: searchParams.get('id'), 400 without it
DeleteRoute(cds, query) ==
    IF ~query.id.some THEN [status |-> 400, table |-> cds]
    ELSE [status |-> 200, table |-> CancelRow(cds, query.id.v)]

\* ----------------------------------------------------------------- state
ExtensionInit ==
    /\ now = 0
    /\ ticks = 0
    /\ cooldowns = <<>>
    /\ calls = [c \in Calls |-> Idle]
    /\ response = NoResponse
    /\ startArgs = <<>>
    /\ input = Nothing
    /\ output = Nothing
    /\ RestIdle

extensionRest == <<calls, response, startArgs, input, output, requests>>

Spawn(h) ==
    /\ Len(handlers) < MaxHandlers
    /\ handlers' = Append(handlers, h)

\* A day and an hour pass.
DayPasses ==
    /\ ticks < MaxDays
    /\ now' = now + 25 * HourMs
    /\ ticks' = ticks + 1
    /\ UNCHANGED <<cooldowns, profiles, storage, handlers, shown, uuids,
                   extensionRest>>

\* ------------------------------------------------------- content script
\* the st-cooldown-btn click handler: sendMessage(START_COOLDOWN), then
\* showCooldownStarted()
ClickStartCooldown ==
    \E product \in PageProducts :
        /\ Len(cooldowns) + Cardinality({h \in 1 .. Len(handlers) :
               handlers[h].fn = "startCooldown"}) < MaxCooldowns
        /\ Spawn(Handler("startCooldown", "getUserId", "", product.url, 0))
        /\ shown' = shown \cup {Confirmation(product.url)}
        /\ UNCHANGED <<now, ticks, cooldowns, profiles, storage, uuids,
                       extensionRest>>

\* ---------------------------------------------------- background worker
\* the checkExpiredCooldowns alarm goes off
AlarmFires ==
    /\ Spawn(Handler("onAlarm", "getUserId", "", "", 0))
    /\ UNCHANGED <<now, ticks, cooldowns, profiles, storage, shown, uuids,
                   extensionRest>>

\* getUserId up to its first await: the stored id, or a new one to store
GetUserIdRead ==
    \E h \in 1 .. Len(handlers) :
        /\ handlers[h].pc = "getUserId"
        /\ IF storage.userId # ""
           THEN /\ handlers' = [handlers EXCEPT ![h].pc = "fetch",
                                                ![h].userId = storage.userId]
                /\ UNCHANGED uuids
           ELSE /\ uuids < Len(UuidNames)
                /\ uuids' = uuids + 1
                /\ handlers' = [handlers EXCEPT ![h].pc = "setUserId",
                                                ![h].userId = Uuid(uuids')]
        /\ UNCHANGED <<now, ticks, cooldowns, profiles, storage, shown,
                       extensionRest>>

\* getUserId, the rest: chrome.storage.local.set({ userId })
GetUserIdSet ==
    \E h \in 1 .. Len(handlers) :
        /\ handlers[h].pc = "setUserId"
        /\ storage' = [storage EXCEPT !.userId = handlers[h].userId]
        /\ handlers' = [handlers EXCEPT ![h].pc = "fetch"]
        /\ UNCHANGED <<now, ticks, cooldowns, profiles, shown, uuids,
                       extensionRest>>

\* startCooldown from its fetch on: POST /api/cooldown creates the profile
\* and the record, or fails; trackEngagement then only reads
StartCooldownFetch ==
    \E h \in 1 .. Len(handlers), ok \in BOOLEAN :
        LET hd      == handlers[h]
            product == CHOOSE p \in PageProducts : p.url = hd.url
        IN  /\ hd.fn = "startCooldown"
            /\ hd.pc = "fetch"
            /\ IF ok
               THEN /\ profiles' = EnsureProfile(profiles, hd.userId, now)
                    /\ cooldowns' = InsertRow(cooldowns,
                           StartRow(hd.userId, product, AnalysisCool, now))
               ELSE UNCHANGED <<profiles, cooldowns>>
            /\ handlers' = Remove(handlers, h)
            /\ UNCHANGED <<now, ticks, storage, shown, uuids, extensionRest>>

\* the alarm listener from its fetch on, when the API answers: a
\* notification for every returned cool-down whose status is 'expired'
AlarmFetch ==
    \E h \in 1 .. Len(handlers), swept \in BOOLEAN :
        LET hd   == handlers[h]
            data == GetActiveRoute(cooldowns, hd.userId, swept, now)
        IN  /\ hd.fn = "onAlarm"
            /\ hd.pc = "fetch"
            /\ cooldowns' = data.table
            /\ shown' = shown \cup
                   {Notification(data.coolDowns[k].id) :
                       k \in {j \in 1 .. Len(data.coolDowns) :
                                 data.coolDowns[j].status = "expired"}}
            /\ handlers' = Remove(handlers, h)
            /\ UNCHANGED <<now, ticks, profiles, storage, uuids,
                           extensionRest>>

\* the alarm listener when the request fails: the error is logged
AlarmFetchFails ==
    \E h \in 1 .. Len(handlers) :
        /\ handlers[h].fn = "onAlarm"
        /\ handlers[h].pc = "fetch"
        /\ handlers' = Remove(handlers, h)
        /\ UNCHANGED <<now, ticks, cooldowns, profiles, storage, shown,
                       uuids, extensionRest>>

\* ----------------------------------------------------------------- popup
\* the Cool-downs tab is opened: loadCooldowns()
OpenCooldownsTab ==
    /\ Spawn(Handler("loadCooldowns", "popupGetUserId", "", "", 0))
    /\ UNCHANGED <<now, ticks, cooldowns, profiles, storage, shown, uuids,
                   extensionRest>>

\* a Cancel button of the rendered list is clicked: cancelCooldown(id)
ClickCancel ==
    \E item \in shown, id \in 1 .. MaxCooldowns :
        /\ item.kind = "cooldowns-list"
        /\ id \in item.ids
        /\ Spawn(Handler("cancelCooldown", "popupGetUserId", "", "", id))
        /\ UNCHANGED <<now, ticks, cooldowns, profiles, storage, shown,
                       uuids, extensionRest>>

\* the popup's getUserId: the stored id or null; without one loadCooldowns
\* renders the empty list and cancelCooldown returns
PopupGetUserId ==
    \E h \in 1 .. Len(handlers) :
        LET hd == handlers[h]
        IN  /\ hd.pc = "popupGetUserId"
            /\ IF storage.userId # ""
               THEN /\ handlers' = [handlers EXCEPT
                           ![h].pc = "fetch", ![h].userId = storage.userId]
                    /\ UNCHANGED shown
               ELSE /\ handlers' = Remove(handlers, h)
                    /\ shown' =
                           IF hd.fn = "loadCooldowns"
                           THEN {s \in shown : s.kind # "cooldowns-list"}
                                \cup {CooldownList({}, hd.id)}
                           ELSE shown
            /\ UNCHANGED <<now, ticks, cooldowns, profiles, storage, uuids,
                           extensionRest>>

\* loadCooldowns from its fetch on: the active cool-downs are rendered, or
\* the empty list when there is none or the request fails
LoadCooldownsFetch ==
    \E h \in 1 .. Len(handlers), ok \in BOOLEAN, swept \in BOOLEAN :
        LET hd   == handlers[h]
            data == GetActiveRoute(cooldowns, hd.userId, swept, now)
            activeCooldowns ==
                {data.coolDowns[k].id :
                    k \in {j \in 1 .. Len(data.coolDowns) :
                              data.coolDowns[j].status = "active"}}
        IN  /\ hd.fn = "loadCooldowns"
            /\ hd.pc = "fetch"
            /\ cooldowns' = IF ok THEN data.table ELSE cooldowns
            /\ shown' = {s \in shown : s.kind # "cooldowns-list"}
                        \cup {CooldownList(IF ok THEN activeCooldowns ELSE {},
                                           hd.id)}
            /\ handlers' = Remove(handlers, h)
            /\ UNCHANGED <<now, ticks, profiles, storage, uuids,
                           extensionRest>>

\* cancelCooldown from its fetch on: DELETE ?userId=..&cooldownId=..; when
\* fetch resolves, whatever the status, the toast and loadCooldowns()
CancelCooldownFetch ==
    \E h \in 1 .. Len(handlers), ok \in BOOLEAN :
        LET hd    == handlers[h]
            query == [NoQuery EXCEPT !.userId = Some(hd.userId),
                                     !.cooldownId = Some(hd.id)]
            res   == DeleteRoute(cooldowns, query)
        IN  /\ hd.fn = "cancelCooldown"
            /\ hd.pc = "fetch"
            /\ IF ok
               THEN /\ cooldowns' = res.table
                    /\ shown' = shown \cup {Toast("Cool-down cancelled", hd.id)}
                    /\ handlers' = [handlers EXCEPT ![h] =
                           Handler("loadCooldowns", "popupGetUserId", "", "",
                                   hd.id)]
               ELSE /\ UNCHANGED cooldowns
                    /\ shown' = shown \cup {Toast("Failed to cancel", hd.id)}
                    /\ handlers' = Remove(handlers, h)
            /\ UNCHANGED <<now, ticks, profiles, storage, uuids,
                           extensionRest>>

ExtensionNext ==
    \/ DayPasses
    \/ ClickStartCooldown
    \/ AlarmFires
    \/ GetUserIdRead
    \/ GetUserIdSet
    \/ StartCooldownFetch
    \/ AlarmFetch
    \/ AlarmFetchFails
    \/ OpenCooldownsTab
    \/ ClickCancel
    \/ PopupGetUserId
    \/ LoadCooldownsFetch
    \/ CancelCooldownFetch

SpecExtension == ExtensionInit /\ [][ExtensionNext]_vars

ExtensionTypeOK ==
    /\ Len(handlers) <= MaxHandlers
    /\ uuids <= MaxHandlers
    /\ Len(cooldowns) <= MaxCooldowns
    /\ storage.userId \in {""} \cup Range(UuidNames)

\* The alarm keeps firing, the API keeps answering the alarm's request, and
\* every handler that has started runs on to its end (a fetch resolves or
\* rejects).
FairSpecExtension ==
    /\ SpecExtension
    /\ SF_vars(AlarmFires)
    /\ SF_vars(AlarmFetch)
    /\ WF_vars(GetUserIdRead)
    /\ WF_vars(GetUserIdSet)
    /\ WF_vars(StartCooldownFetch)
    /\ WF_vars(PopupGetUserId)
    /\ WF_vars(LoadCooldownsFetch)
    /\ WF_vars(CancelCooldownFetch)

\* ----------------------------------------------- claims on the extension
\* the cool-down with this id has run out and was not cancelled
HasExpired(i) ==
    /\ i \in Ids(cooldowns)
    /\ cooldowns[i].status # "cancelled"
    /\ TsLt(cooldowns[i].expires_at, toISOString(now))

\* C23: after a cool-down expires, and given that the alarm keeps firing
\* and the API answers, the background worker eventually creates a
\* 'Cool-Down Expired' notification for that cool-down.
C23_EventuallyReminded ==
    \A i \in 1 .. MaxCooldowns :
        HasExpired(i) ~> (Notification(i) \in shown)

\* what the worker does instead: it never creates a notification
C23_NeverNotifies == \A s \in shown : s.kind # "Cool-Down Expired"

\* C25: the 'Cool-Down Started' confirmation is on screen only once the API
\* has created the cool-down record for that page; a failed start shows no
\* confirmation.
C25_ConfirmationOnlyAfterCreated ==
    \A s \in shown :
        s.kind = "Cool-Down Started!" =>
            \E i \in Ids(cooldowns) : cooldowns[i].product_url = s.url

\* C28: once the popup's cancelCooldown(id) request has completed and the
\* 'Cool-down cancelled' toast is shown, the record with that id is
\* cancelled and the list loaded next does not contain it.
C28_CancelTakesEffect ==
    \A s \in shown :
        s.kind = "Cool-down cancelled" =>
            /\ cooldowns[s.id].status = "cancelled"
            /\ \A l \in shown :
                   (l.kind = "cooldowns-list" /\ l.id = s.id) => s.id \notin l.ids

\* the identifiers getUserId has returned to the worker's handlers, and
\* those the API has stored with a record
UserIdsInUse ==
    {handlers[h].userId :
        h \in {k \in 1 .. Len(handlers) :
                  /\ handlers[k].fn \in {"startCooldown", "onAlarm"}
                  /\ handlers[k].pc = "fetch"}}
    \cup {cooldowns[i].user_id : i \in Ids(cooldowns)}

\* C29: under any interleaving of message handlers and alarms, including
\* the first use, every getUserId call returns the same userId, so all API
\* requests carry the same id.
C29_OneUserId == Cardinality(UserIdsInUse) <= 1

====
